---------------------------- MODULE Spec2Model ----------------------------
(***************************************************************************)
(* A model of the copert-cli agent core: the REPL session                  *)
(* (copert/cli/session.py), the LangGraph agent graph                      *)
(* (copert/agents/graph.py), the approval manager                          *)
(* (copert/utils/approval.py), the delegation tools                        *)
(* (copert/tools/task/delegate.py, copert/tools/project/init.py), the tool *)
(* registries (copert/tools/__init__.py) and the multiedit tool            *)
(* (copert/tools/file_ops/multiedit.py).                                   *)
(*                                                                         *)
(* Three specifications share the variables:                               *)
(*   SpecEdit     one multiedit request, step by step against the disk;    *)
(*   Spec         a session: turns, model responses, tool dispatch,        *)
(*                approval prompts, delegation, interrupts, /clear;        *)
(*   SpecCeiling  a session whose model answers every call with a tool     *)
(*                call, run up to the graphs' recursion limits.            *)
(***************************************************************************)
EXTENDS Integers, Sequences, FiniteSets, TLC

VARIABLES
    disk,               \* the one file the file tools address
    med,                \* activation record of the running multiedit call
    messages,           \* CopertSession.messages
    stack,              \* running graphs: <<main>> or <<main, sub-agent>>
    approval_history,   \* ApprovalManager.approval_history
    auto_approve,       \* ApprovalManager.auto_approve
    manager,            \* TRUE iff the main graph was built with an approval manager
    executed,           \* log of tool bodies that ran (history variable)
    copert_md,          \* TRUE iff COPERT.md exists in the working directory
    outcome,            \* how the last process_message ended, or "running"
    llm,                \* the model: its mode and what it has emitted so far
    turns               \* user messages accepted so far

vars == <<disk, med, messages, stack, approval_history, auto_approve,
          manager, executed, copert_md, outcome, llm, turns>>

editVars == <<disk, med>>
sessionVars == <<messages, stack, approval_history, auto_approve,
                 manager, executed, copert_md, outcome, llm, turns>>

(***************************************************************************)
(* Bounds of the model.                                                    *)
(***************************************************************************)
MaxContentLen == 3      \* longest initial file content
MaxEdits == 2           \* longest edit sequence of one multiedit request
MaxInputs == 3          \* user messages plus tool calls of the model per session
MaxTurns == 1           \* user messages of a session whose model is of mode any
MaxStopCall == 2        \* last call of a run at which the model of mode any may stop

(***************************************************************************)
(* Program constants.                                                      *)
(***************************************************************************)
DefaultRecursionLimit == 25   \* langgraph's default, used by graph.stream
SubRecursionLimit == 50       \* config={"recursion_limit": 50}
MaxIterations == 25           \* Settings.max_iterations

Alphabet == {"a", "b"}

\* All strings (sequences of characters) of length at most n.
Str(n) == UNION {[1..k -> Alphabet] : k \in 0..n}

\* The match-texts and replacement-texts the requests draw from.
OldStrings == {<<>>, <<"a">>, <<"b">>, <<"a", "a">>, <<"a", "b">>}
NewStrings == {<<>>, <<"a">>, <<"b">>}

(***************************************************************************)
(* Python str operations used by the edit tools.                           *)
(***************************************************************************)
\* s[i : i + len(p)] == p (1-based i)
IsAt(s, p, i) ==
    /\ i + Len(p) - 1 <= Len(s)
    /\ \A k \in 1..Len(p) : s[i + k - 1] = p[k]

\* p in s
Contains(s, p) == \E i \in 1..(Len(s) - Len(p) + 1) : IsAt(s, p, i)

RECURSIVE CountFrom(_, _, _)
CountFrom(s, p, i) ==
    IF i + Len(p) - 1 > Len(s) THEN 0
    ELSE IF IsAt(s, p, i) THEN 1 + CountFrom(s, p, i + Len(p))
    ELSE CountFrom(s, p, i + 1)

\* s.count(p): non-overlapping occurrences, len(s) + 1 for the empty p
Count(s, p) == IF p = <<>> THEN Len(s) + 1 ELSE CountFrom(s, p, 1)

RECURSIVE InterleaveFrom(_, _, _, _)
InterleaveFrom(s, new, i, k) ==
    IF k = 0 THEN SubSeq(s, i, Len(s))
    ELSE IF i > Len(s) THEN new
    ELSE new \o <<s[i]>> \o InterleaveFrom(s, new, i + 1, k - 1)

RECURSIVE ReplaceFrom(_, _, _, _, _)
ReplaceFrom(s, old, new, i, k) ==
    IF k = 0 \/ i + Len(old) - 1 > Len(s) THEN SubSeq(s, i, Len(s))
    ELSE IF IsAt(s, old, i)
         THEN new \o ReplaceFrom(s, old, new, i + Len(old), k - 1)
         ELSE <<s[i]>> \o ReplaceFrom(s, old, new, i + 1, k)

\* s.replace(old, new, k); k = -1 replaces every occurrence
Replace(s, old, new, k) ==
    LET n == IF k < 0 THEN Len(s) + 1 ELSE k
    IN  IF old = <<>> THEN InterleaveFrom(s, new, 1, n)
        ELSE ReplaceFrom(s, old, new, 1, n)

\* The proper and improper prefixes of s.
Prefixes(s) == {SubSeq(s, 1, k) : k \in 0..Len(s)}

(***************************************************************************)
(* The multiedit tool, copert/tools/file_ops/multiedit.py.                 *)
(***************************************************************************)
\* An edit dictionary as the tool receives it; has_old / has_new say whether
\* the keys "old_string" / "new_string" are present.
Edits ==
    [has_old : {TRUE}, has_new : {TRUE}, old_string : OldStrings,
     new_string : NewStrings, replace_all : BOOLEAN]
    \cup {[has_old |-> FALSE, has_new |-> TRUE, old_string |-> <<>>,
           new_string |-> <<"a">>, replace_all |-> FALSE],
          [has_old |-> TRUE, has_new |-> FALSE, old_string |-> <<"a">>,
           new_string |-> <<>>, replace_all |-> FALSE]}

EditSeqs == UNION {[1..n -> Edits] : n \in 0..MaxEdits}

\* The states of the addressed path.
DiskStates ==
    [kind : {"file"}, data : Str(MaxContentLen)]
    \cup {[kind |-> "missing", data |-> <<>>],
          [kind |-> "dir", data |-> <<>>],
          [kind |-> "binary", data |-> <<>>]}

Ok(content) == [status |-> "ok", code |-> "applied", op |-> 0, content |-> content]
Err(code, op) == [status |-> "error", code |-> code, op |-> op, content |-> <<>>]

\* Lines 96-118: the parsing loop returns at the first edit that misses a
\* field or has identical strings; NoResult when all edits parse.
NoResult == [status |-> "none", code |-> "", op |-> 0, content |-> <<>>]

\* A parsing loop that lets identical strings pass.
ParseFault_NoIdentical(e) ==
    IF ~e.has_old THEN "missing_old"
    ELSE IF ~e.has_new THEN "missing_new"
    ELSE ""

ParseFault(e) ==
    IF ~e.has_old THEN "missing_old"
    ELSE IF ~e.has_new THEN "missing_new"
    ELSE IF e.old_string = e.new_string THEN "identical"
    ELSE ""

ParseEdits(edits) ==
    LET bad == {i \in 1..Len(edits) : ParseFault(edits[i]) # ""}
    IN  IF bad = {} THEN NoResult
        ELSE LET i == CHOOSE j \in bad : \A k \in bad : j <= k
             IN  Err(ParseFault(edits[i]), i)

\* Lines 82-92 and 94-118: the checks made before the file is read.
Validate(d, edits) ==
    IF d.kind = "missing" THEN Err("does_not_exist", 0)
    ELSE IF d.kind = "dir" THEN Err("not_a_file", 0)
    ELSE IF Len(edits) = 0 THEN Err("no_edits", 0)
    ELSE ParseEdits(edits)

\* A loop that reports the index of enumerate, counted from 0.
ApplyOne_ZeroBased(content, e, i) ==
    IF ~Contains(content, e.old_string) THEN Err("not_found", i - 1)
    ELSE IF ~e.replace_all /\ Count(content, e.old_string) > 1
         THEN Err("ambiguous", i - 1)
    ELSE IF e.replace_all
         THEN Ok(Replace(content, e.old_string, e.new_string, -1))
         ELSE Ok(Replace(content, e.old_string, e.new_string, 1))

\* A loop that looks for the match-text in the original content.
ApplyOne_AgainstOriginal(content, e, i) ==
    IF ~Contains(med.original, e.old_string) THEN Err("not_found", i)
    ELSE IF ~e.replace_all /\ Count(content, e.old_string) > 1
         THEN Err("ambiguous", i)
    ELSE IF e.replace_all
         THEN Ok(Replace(content, e.old_string, e.new_string, -1))
         ELSE Ok(Replace(content, e.old_string, e.new_string, 1))

\* Lines 138-152: one edit against the accumulated content.
ApplyOne(content, e, i) ==
    IF ~Contains(content, e.old_string) THEN Err("not_found", i)
    ELSE IF ~e.replace_all /\ Count(content, e.old_string) > 1
         THEN Err("ambiguous", i)
    ELSE IF e.replace_all
         THEN Ok(Replace(content, e.old_string, e.new_string, -1))
         ELSE Ok(Replace(content, e.old_string, e.new_string, 1))

\* A loop that stops after its first operation.
ApplyFrom_FirstOnly(content, edits, i) ==
    IF i > Len(edits) THEN Ok(content)
    ELSE ApplyOne(content, edits[i], i)

\* Lines 132-152: the whole loop, from edit i on.
RECURSIVE ApplyFrom(_, _, _)
ApplyFrom(content, edits, i) ==
    IF i > Len(edits) THEN Ok(content)
    ELSE LET r == ApplyOne(content, edits[i], i)
         IN  IF r.status = "error" THEN r
             ELSE ApplyFrom(r.content, edits, i + 1)

ApplyEdits(content, edits) == ApplyFrom(content, edits, 1)

MedIdle ==
    [pc |-> "idle", edits |-> <<>>, content |-> <<>>, original |-> <<>>,
     i |-> 0, result |-> NoResult, writes |-> 0, pre |-> [kind |-> "missing", data |-> <<>>]]

\* multiedit(file_path, edits), lines 74-118: entry and validation.
MultieditCall ==
    /\ med.pc = "idle"
    /\ \E edits \in EditSeqs :
         LET v == Validate(disk, edits)
         IN  med' = [med EXCEPT !.edits = edits, !.pre = disk,
                                !.pc = IF v.status = "error" THEN "done" ELSE "read",
                                !.result = v]
    /\ UNCHANGED <<disk>>
    /\ UNCHANGED sessionVars

\* Lines 120-130: read the file; a decode or read fault returns an error.
MultieditRead ==
    /\ med.pc = "read"
    /\ \E fault \in BOOLEAN :
         med' = IF disk.kind = "binary" THEN [med EXCEPT !.pc = "done", !.result = Err("not_utf8", 0)]
                ELSE IF fault THEN [med EXCEPT !.pc = "done", !.result = Err("read_error", 0)]
                ELSE [med EXCEPT !.pc = "apply", !.content = disk.data,
                                 !.original = disk.data, !.i = 1]
    /\ UNCHANGED <<disk>>
    /\ UNCHANGED sessionVars

\* A loop that writes the file after each operation.
MultieditApply_WriteThrough ==
    /\ med.pc = "apply"
    /\ IF med.i > Len(med.edits)
       THEN med' = [med EXCEPT !.pc = "write"] /\ UNCHANGED disk
       ELSE LET r == ApplyOne(med.content, med.edits[med.i], med.i)
            IN  IF r.status = "error"
                THEN /\ med' = [med EXCEPT !.pc = "done", !.result = r]
                     /\ UNCHANGED disk
                ELSE /\ med' = [med EXCEPT !.content = r.content,
                                           !.i = med.i + 1]
                     /\ disk' = [kind |-> "file", data |-> r.content]
    /\ UNCHANGED sessionVars

\* Lines 133-152: one iteration of the loop over edit_operations.
MultieditApply ==
    /\ med.pc = "apply"
    /\ med' = IF med.i > Len(med.edits) THEN [med EXCEPT !.pc = "write"]
              ELSE LET r == ApplyOne(med.content, med.edits[med.i], med.i)
                   IN  IF r.status = "error"
                       THEN [med EXCEPT !.pc = "done", !.result = r]
                       ELSE [med EXCEPT !.content = r.content, !.i = med.i + 1]
    /\ UNCHANGED <<disk>>
    /\ UNCHANGED sessionVars

\* What open(path, "w") followed by f.write(text) can leave on the disk:
\* the text; the old state when open fails; a prefix of the text when the
\* write fails after the truncation.
WriteOutcomes(d, text) ==
    {[ok |-> TRUE, disk |-> [kind |-> "file", data |-> text]],
     [ok |-> FALSE, disk |-> d]}
    \cup {[ok |-> FALSE, disk |-> [kind |-> "file", data |-> p]] :
            p \in Prefixes(text) \ {text}}

\* Lines 154-157 and 170: the single write of the fully edited content.
MultieditWrite ==
    /\ med.pc = "write"
    /\ \E w \in WriteOutcomes(disk, med.content) :
         /\ disk' = w.disk
         /\ med' = IF w.ok
                   THEN [med EXCEPT !.pc = "done", !.writes = med.writes + 1,
                                    !.result = Ok(med.content)]
                   ELSE [med EXCEPT !.pc = "restore", !.writes = med.writes + 1]
    /\ UNCHANGED sessionVars

\* A restore that reports the request as applied.
MultieditRestore_ReportsSuccess ==
    /\ med.pc = "restore"
    /\ \E w \in WriteOutcomes(disk, med.original) :
         /\ disk' = w.disk
         /\ med' = [med EXCEPT !.pc = "done", !.writes = med.writes + 1,
                               !.result = IF w.ok THEN Ok(med.original)
                                          ELSE Err("write_error", 0)]
    /\ UNCHANGED sessionVars

\* Lines 158-165: best-effort restore of the original content, then the error.
MultieditRestore ==
    /\ med.pc = "restore"
    /\ \E w \in WriteOutcomes(disk, med.original) :
         /\ disk' = w.disk
         /\ med' = [med EXCEPT !.pc = "done", !.writes = med.writes + 1,
                               !.result = Err("write_error", 0)]
    /\ UNCHANGED sessionVars


(***************************************************************************)
(* The edit_file tool, copert/tools/file_ops/edit.py, and multiedit as one *)
(* tool call whose file operations succeed.                                *)
(***************************************************************************)
Outcome(d, content) == [disk |-> d, content |-> content]

\* An edit_file that replaces the first occurrence when there are several.
EditFile_FirstOfMany(d, e) ==
    IF d.kind = "missing" THEN Outcome(d, "Error: File not found")
    ELSE IF d.kind = "dir" THEN Outcome(d, "Error: Path is not a file")
    ELSE IF e.old_string = e.new_string
         THEN Outcome(d, "Error: old_string and new_string must be different")
    ELSE IF d.kind = "binary" THEN Outcome(d, "Error: Unable to decode file")
    ELSE IF ~Contains(d.data, e.old_string)
         THEN Outcome(d, "Error: old_string not found in file")
    ELSE Outcome([kind |-> "file",
                  data |-> Replace(d.data, e.old_string, e.new_string,
                                   IF e.replace_all THEN -1 ELSE 1)],
                 "Successfully replaced")

\* edit_file(file_path, old_string, new_string, replace_all), lines 29-84
EditFile(d, e) ==
    IF d.kind = "missing" THEN Outcome(d, "Error: File not found")
    ELSE IF d.kind = "dir" THEN Outcome(d, "Error: Path is not a file")
    ELSE IF e.old_string = e.new_string
         THEN Outcome(d, "Error: old_string and new_string must be different")
    ELSE IF d.kind = "binary" THEN Outcome(d, "Error: Unable to decode file")
    ELSE IF ~Contains(d.data, e.old_string)
         THEN Outcome(d, "Error: old_string not found in file")
    ELSE IF ~e.replace_all /\ Count(d.data, e.old_string) > 1
         THEN Outcome(d, "Error: old_string appears several times in the file")
    ELSE Outcome([kind |-> "file",
                  data |-> Replace(d.data, e.old_string, e.new_string,
                                   IF e.replace_all THEN -1 ELSE 1)],
                 "Successfully replaced")

\* multiedit(file_path, edits), lines 74-173, with no read or write fault
MultieditTool(d, edits) ==
    LET v == Validate(d, edits)
    IN  IF v.status = "error" THEN Outcome(d, "Error: multiedit request rejected")
        ELSE IF d.kind = "binary" THEN Outcome(d, "Error: File is not a valid UTF-8 text file")
        ELSE LET r == ApplyEdits(d.data, edits)
             IN  IF r.status = "error" THEN Outcome(d, "Error: Edit failed")
                 ELSE Outcome([kind |-> "file", data |-> r.content],
                              "Successfully applied edits")

(***************************************************************************)
(* A multiedit request followed by its inverse request, each as one tool   *)
(* call (multiedit.py lines 74-173) whose file operations succeed.         *)
(***************************************************************************)
\* The operations of the requests: single replacements, the replacement
\* text up to two characters.
SingleEdits ==
    {e \in [has_old : {TRUE}, has_new : {TRUE}, old_string : OldStrings,
            new_string : NewStrings \cup {<<"a", "a">>}, replace_all : {FALSE}] :
       e.old_string # e.new_string}

SingleEditSeqs == UNION {[1..n -> SingleEdits] : n \in 1..MaxEdits}

\* The inverse request: the operations in reversed order, old and new
\* swapped.
Inverse(edits) ==
    [k \in 1..Len(edits) |->
       [edits[Len(edits) + 1 - k] EXCEPT
          !.old_string = edits[Len(edits) + 1 - k].new_string,
          !.new_string = edits[Len(edits) + 1 - k].old_string]]

\* The tool's result as a record.
ToolResult(before, out) ==
    IF out.content = "Successfully applied edits" THEN Ok(out.disk.data)
    ELSE Err("failed", 0)

\* multiedit(file_path, edits) with a request of single replacements
RoundTripForward ==
    /\ med.pc = "idle"
    /\ \E edits \in SingleEditSeqs :
         LET out == MultieditTool(disk, edits)
         IN  /\ disk' = out.disk
             /\ med' = [MedIdle EXCEPT !.pc = "forward", !.edits = edits,
                                       !.pre = disk, !.original = disk.data,
                                       !.result = ToolResult(disk, out)]
    /\ UNCHANGED sessionVars

\* multiedit(file_path, inverse edits) on the file the request has left
RoundTripInverse ==
    /\ med.pc = "forward"
    /\ med.result.status = "ok"
    /\ LET out == MultieditTool(disk, Inverse(med.edits))
       IN  /\ disk' = out.disk
           /\ med' = [med EXCEPT !.pc = "inverse", !.content = disk.data,
                                 !.result = ToolResult(disk, out)]
    /\ UNCHANGED sessionVars

(***************************************************************************)
(* One edit given to edit_file and, as a request of one operation, to      *)
(* multiedit (edit.py lines 29-84, multiedit.py lines 74-173), the file    *)
(* operations succeeding.                                                  *)
(***************************************************************************)
\* The edits: any match-text, the empty one too, any replacement-text, the
\* match-text itself too, with and without replace_all.
OneEdits ==
    [has_old : {TRUE}, has_new : {TRUE}, old_string : OldStrings,
     new_string : NewStrings \cup {<<"a", "a">>, <<"a", "b">>},
     replace_all : BOOLEAN]

\* edit_file(file_path, old_string, new_string, replace_all)
EditFileCall ==
    /\ med.pc = "idle"
    /\ \E e \in OneEdits :
         LET out == EditFile(disk, e)
         IN  /\ disk' = out.disk
             /\ med' = [MedIdle EXCEPT
                          !.pc = "edit_file", !.edits = <<e>>, !.pre = disk,
                          !.original = disk.data,
                          !.result = IF out.content = "Successfully replaced"
                                     THEN Ok(out.disk.data) ELSE Err("failed", 0)]
    /\ UNCHANGED sessionVars

\* multiedit(file_path, [edit])
MultieditOneCall ==
    /\ med.pc = "idle"
    /\ \E e \in OneEdits :
         LET out == MultieditTool(disk, <<e>>)
         IN  /\ disk' = out.disk
             /\ med' = [MedIdle EXCEPT
                          !.pc = "multiedit", !.edits = <<e>>, !.pre = disk,
                          !.original = disk.data,
                          !.result = ToolResult(disk, out)]
    /\ UNCHANGED sessionVars

(***************************************************************************)

(* Tool registries, copert/tools/__init__.py.                              *)
(***************************************************************************)
\* A read-only registry that holds the delegation tool.
READ_ONLY_TOOLS_WithTask ==
    {"read_file", "ls", "grep", "glob", "webfetch", "websearch", "task"}

\* A research class that may write files.
READ_ONLY_TOOLS_WithWrite ==
    {"read_file", "ls", "grep", "glob", "webfetch", "websearch", "write_file"}

READ_ONLY_TOOLS ==
    {"read_file", "ls", "grep", "glob", "webfetch", "websearch"}

CODE_WRITER_TOOLS ==
    {"read_file", "write_file", "edit_file", "multiedit", "ls", "grep", "glob"}

\* A project-init class with one more tool of its own.
PROJECT_INIT_TOOLS_WithDelete ==
    {"read_file", "write_file", "ls", "grep", "glob", "write_copert_md",
     "read_copert_md", "delete_everything"}

PROJECT_INIT_TOOLS ==
    {"read_file", "write_file", "ls", "grep", "glob", "write_copert_md",
     "read_copert_md"}

ALL_TOOLS ==
    {"read_file", "write_file", "edit_file", "ls", "multiedit", "grep", "glob",
     "bash", "todowrite", "webfetch", "websearch", "task", "init"}

\* The tools that start a nested graph (delegate.py, init.py).
DelegationTools == {"task", "init"}

\* approval.py line 70: the tools request_approval prompts for.
GatedTools == {"write_file", "edit_file", "multiedit"}

\* delegate.py line 93
ValidTypes == {"general-purpose", "code-writer", "project-init"}

\* delegate.py lines 97-106: the tool list of each sub-agent class
SubagentTools(t) ==
    CASE t = "general-purpose" -> READ_ONLY_TOOLS
      [] t = "code-writer" -> CODE_WRITER_TOOLS
      [] t = "project-init" -> PROJECT_INIT_TOOLS

(***************************************************************************)
(* Messages (langchain_core.messages) and tool calls.                      *)
(***************************************************************************)
Msg(role, content, calls, id, name) ==
    [role |-> role, content |-> content, tool_calls |-> calls,
     tool_call_id |-> id, name |-> name]

HumanMessage(c) == Msg("human", c, <<>>, 0, "")
AIMessage(c, calls) == Msg("ai", c, calls, 0, "")
ToolMessage(c, name, id) == Msg("tool", c, <<>>, id, name)
NoMsg == Msg("none", "", <<>>, 0, "")

\* The argument mapping of a tool call, as far as the program looks at it:
\* shape "valid" passes the tool's schema, "missing" lacks a required
\* field, "wrong_type" carries a file_path that is not a string.
Args(shape, t) == [shape |-> shape, subagent_type |-> t]

\* The tool calls the model draws from.
Menu ==
    {[name |-> "read_file", args |-> Args("valid", "")],
     [name |-> "write_file", args |-> Args("valid", "")],
     [name |-> "write_file", args |-> Args("wrong_type", "")],
     [name |-> "edit_file", args |-> Args("valid", "")],
     [name |-> "multiedit", args |-> Args("valid", "")],
     [name |-> "bash", args |-> Args("valid", "")],
     [name |-> "write_copert_md", args |-> Args("valid", "")],
     [name |-> "delete_everything", args |-> Args("valid", "")],
     [name |-> "task", args |-> Args("valid", "general-purpose")],
     [name |-> "task", args |-> Args("valid", "code-writer")],
     [name |-> "task", args |-> Args("valid", "project-init")],
     [name |-> "task", args |-> Args("valid", "bogus")],
     [name |-> "init", args |-> Args("valid", "")]}

\* The inputs of the file tools in the session specifications.
WrittenText == <<"b">>
TheEdit ==
    [has_old |-> TRUE, has_new |-> TRUE, old_string |-> <<"a">>,
     new_string |-> <<"b">>, replace_all |-> FALSE]
TheEdits ==
    <<TheEdit,
      [has_old |-> TRUE, has_new |-> TRUE, old_string |-> <<"b">>,
       new_string |-> <<>>, replace_all |-> FALSE]>>

\* An answer that does not name the valid types.
InvalidSubagentType_Bare(t) == "Error: Invalid subagent_type '" \o t \o "'"

\* delegate.py lines 93-95: the answer to an unknown subagent_type.
InvalidSubagentType(t) ==
    "Error: Invalid subagent_type '" \o t
      \o "'. Valid types: general-purpose, code-writer, project-init"

\* The body of a tool that is no delegation: its effect and its result.
RunTool(call, d, cm) ==
    CASE call.name = "write_file" ->
           [disk |-> [kind |-> "file", data |-> WrittenText], copert_md |-> cm,
            content |-> "Successfully wrote"]
      [] call.name = "edit_file" ->
           [disk |-> EditFile(d, TheEdit).disk, copert_md |-> cm,
            content |-> EditFile(d, TheEdit).content]
      [] call.name = "multiedit" ->
           [disk |-> MultieditTool(d, TheEdits).disk, copert_md |-> cm,
            content |-> MultieditTool(d, TheEdits).content]
      [] call.name = "bash" ->
           [disk |-> [kind |-> "missing", data |-> <<>>], copert_md |-> cm,
            content |-> "command output"]
      [] call.name = "write_copert_md" ->
           [disk |-> d, copert_md |-> TRUE,
            content |-> "Successfully wrote COPERT.md"]
      [] call.name = "task" ->
           [disk |-> d, copert_md |-> cm,
            content |-> InvalidSubagentType(call.args.subagent_type)]
      [] OTHER ->
           [disk |-> d, copert_md |-> cm, content |-> "tool output"]

(***************************************************************************)
(* The agent graph, copert/agents/graph.py.                                *)
(***************************************************************************)
Top == stack[Len(stack)]
SetTop(f) == [stack EXCEPT ![Len(stack)] = f]

\* The tool calls being dispatched: those of the last message of the state.
Calls(f) == f.msgs[Len(f.msgs)].tool_calls

\* create_agent_graph(system_prompt, tools, approval_manager) and the input
\* state {"messages": msgs}, run with the given recursion limit.  steps
\* counts the supersteps run; model_calls and dispatches are history
\* fields counting the agent and tools nodes run; pool holds the calls
\* that threads of ToolNode's executor are running.
NewGraph(kind, via, tools, approval, limit, msgs) ==
    [kind |-> kind, via |-> via, tools |-> tools, approval |-> approval,
     limit |-> limit, steps |-> 0, pc |-> "agent", msgs |-> msgs,
     todo |-> {}, acc |-> <<>>, cur |-> 0, approved |-> FALSE,
     model_calls |-> 0, dispatches |-> 0, pool |-> {}]

\* A nested graph built with the full registry.
SubTools_All(t) == ALL_TOOLS

\* delegate.py lines 97-125 and init.py lines 78-92: the nested graph gets
\* the class's tools, no approval manager, a fresh conversation.
SubTools(t) == SubagentTools(t)

\* A nested graph started on the parent's conversation and the prompt.
SubGraph_SharedHistory(call) ==
    LET t == IF call.name = "init" THEN "project-init"
             ELSE call.args.subagent_type
    IN  NewGraph(t, call.name, SubTools(t), FALSE, SubRecursionLimit,
                 Append(Top.msgs, HumanMessage("p")))

SubGraph(call) ==
    LET t == IF call.name = "init" THEN "project-init"
             ELSE call.args.subagent_type
    IN  NewGraph(t, call.name, SubTools(t), FALSE, SubRecursionLimit,
                 <<HumanMessage("p")>>)

\* graph.py lines 35-36 and delegate.py lines 97-106: the system prompt
\* the graph of a class is built with.
SystemPrompt(kind) ==
    CASE kind = "main" -> "COPERT_SYSTEM_PROMPT"
      [] kind = "general-purpose" -> "GENERAL_PURPOSE_SUBAGENT_PROMPT"
      [] kind = "code-writer" -> "CODE_WRITER_SUBAGENT_PROMPT"
      [] kind = "project-init" -> "PROJECT_INIT_SUBAGENT_PROMPT"

SystemMessage(c) == Msg("system", c, <<>>, 0, "")

\* An agent node that submits the state's messages as they are.
Submitted_AsStored(f) == f.msgs

\* agent_node, lines 59-66: the messages llm_with_tools.invoke is given.
Submitted(f) ==
    IF \E k \in 1..Len(f.msgs) : f.msgs[k].role = "system"
    THEN f.msgs
    ELSE <<SystemMessage(SystemPrompt(f.kind))>> \o f.msgs

\* A router that lets a response with text end the turn.
should_continue_TextEnds(msgs) ==
    LET last == msgs[Len(msgs)]
    IN  IF last.role = "ai" /\ last.tool_calls # <<>> /\ last.content = ""
        THEN "tools" ELSE "end"

\* should_continue, lines 145-166
should_continue(msgs) ==
    LET last == msgs[Len(msgs)]
    IN  IF last.role = "ai" /\ last.tool_calls # <<>> THEN "tools" ELSE "end"

\* The tool calls the model also sends with text, or several in a message.
MultiMenu ==
    {[name |-> "read_file", args |-> Args("valid", "")],
     [name |-> "write_file", args |-> Args("valid", "")],
     [name |-> "write_file", args |-> Args("wrong_type", "")],
     [name |-> "delete_everything", args |-> Args("valid", "")],
     [name |-> "task", args |-> Args("valid", "code-writer")]}

\* The tool calls the model sends to a graph with an approval manager.
GateMenu ==
    {[name |-> n, args |-> Args(s, "")] :
       n \in {"write_file", "multiedit", "bash", "delete_everything"},
       s \in {"valid", "missing", "wrong_type"}}

\* The tools of the calls the model sends two at a time.
PairTools == {"read_file", "write_file", "edit_file", "multiedit"}

\* The responses of the model.  In free mode: text only (possibly empty),
\* one tool call of Menu, text and one call of MultiMenu, or several calls
\* of MultiMenu, while the session's budget of inputs lasts.  In the
\* loop modes every response is one tool call: read_file, or at the top
\* level of loop_task a delegation.  In the mode any the model ends the
\* run with text at one of its first calls or calls read_file, as it
\* likes, and may open a turn with a delegation.  In the mode pair it
\* opens a turn with two calls of PairTools in one message and then ends it,
\* in the mode gate with one or two calls of GateMenu.
LLMResponses ==
    LET id(k) == llm.calls + k
        room == MaxInputs - turns - llm.calls
        one(m) == <<[id |-> id(1), name |-> m.name, args |-> m.args]>>
    IN  IF llm.mode = "free"
        THEN {AIMessage(c, <<>>) : c \in {"", "text"}}
             \cup {AIMessage("", one(m)) : m \in IF room >= 1 THEN Menu ELSE {}}
             \cup {AIMessage("text", one(m)) :
                     m \in IF room >= 1 THEN MultiMenu ELSE {}}
             \cup UNION {
                 {AIMessage("", [k \in 1..n |->
                                  [id |-> id(k), name |-> pick[k].name,
                                   args |-> pick[k].args]]) :
                     pick \in [1..n -> MultiMenu]} :
                 n \in 2..room}
        ELSE IF llm.mode = "loop_task" /\ Len(stack) = 1
        THEN {AIMessage("", one([name |-> "task",
                                 args |-> Args("valid", "general-purpose")]))}
        ELSE IF llm.mode = "gate"
        THEN IF Top.model_calls = 0
             THEN UNION {
                    {AIMessage("", [k \in 1..n |->
                                     [id |-> id(k), name |-> pick[k].name,
                                      args |-> pick[k].args]]) :
                       pick \in [1..n -> GateMenu]} :
                    n \in 1..2}
             ELSE {AIMessage("text", <<>>)}
        ELSE IF llm.mode = "pair"
        THEN IF Top.model_calls = 0
             THEN {AIMessage("", [k \in 1..2 |->
                                   [id |-> id(k), name |-> pick[k],
                                    args |-> Args("valid", "")]]) :
                     pick \in [1..2 -> PairTools]}
             ELSE {AIMessage("text", <<>>)}
        ELSE IF llm.mode = "any"
        THEN {AIMessage("", one([name |-> "read_file", args |-> Args("valid", "")]))}
             \cup (IF Top.model_calls < MaxStopCall
                   THEN {AIMessage("text", <<>>)}
                   ELSE {})
             \cup (IF Len(stack) = 1 /\ Top.model_calls = 0
                   THEN {AIMessage("", one([name |-> "task",
                                            args |-> Args("valid", "code-writer")]))}
                   ELSE {})
        ELSE {AIMessage("", one([name |-> "read_file", args |-> Args("valid", "")]))}

\* A session that keeps only the last update.
SessionAppend_Replace(new) == new

\* session.py lines 173-175: each message of a node's update is appended.
\* A session that appends what a node has produced twice.
SessionAppend_Twice(new) == messages \o new \o new

SessionAppend(new) == messages \o new

\* agent_node, lines 45-68, then the conditional edge, lines 175-182.  The
\* session appends the node's message as the stream yields it
\* (session.py lines 168-175).
AgentNode ==
    /\ stack # <<>>
    /\ Top.pc = "agent"
    /\ Top.steps < Top.limit
    /\ \E resp \in LLMResponses :
         LET n == Len(resp.tool_calls)
             msgs == Append(Top.msgs, resp)
         IN  /\ stack' = SetTop([Top EXCEPT !.msgs = msgs, !.steps = @ + 1,
                                            !.model_calls = @ + 1,
                                            !.pc = should_continue(msgs),
                                            !.todo = 1..n,
                                            !.acc = [i \in 1..n |-> NoMsg],
                                            !.cur = 0])
             /\ messages' = IF Len(stack) = 1 THEN SessionAppend(<<resp>>)
                            ELSE messages
             /\ llm' = [llm EXCEPT !.calls = @ + n]
    /\ UNCHANGED <<approval_history, auto_approve, manager, executed,
                   copert_md, outcome, turns>>
    /\ UNCHANGED editVars

\* A dispatcher that answers a rejected call with no tool message.
Finish_DropRejected(f, i, content) ==
    IF content = "Operation rejected by user"
    THEN [f EXCEPT !.todo = @ \ {i}, !.pc = "tools"]
    ELSE [f EXCEPT !.acc[i] = ToolMessage(content, Calls(f)[i].name,
                                          Calls(f)[i].id),
                   !.todo = @ \ {i}, !.pc = "tools"]

\* A tool result takes the place of call i; the dispatch goes on.
Finish(f, i, content) ==
    [f EXCEPT !.acc[i] = ToolMessage(content, Calls(f)[i].name, Calls(f)[i].id),
              !.todo = @ \ {i}, !.pc = "tools"]

\* The nested graph is done: its result is the result of the parent's
\* delegation call.
ReturnToParent(content) ==
    LET p == stack[Len(stack) - 1]
    IN  Append(SubSeq(stack, 1, Len(stack) - 2), Finish(p, p.cur, content))

\* A nested graph whose exception goes through task and init to the session.
Raise_Propagates == <<>>

\* An exception leaves the top graph: the session's handler ends the turn
\* (session.py lines 254-255); task and init turn it into their result
\* (delegate.py lines 159-160, init.py lines 111-112).
Raise ==
    IF Len(stack) = 1 THEN <<>>
    ELSE ReturnToParent(IF Top.via = "task" THEN "Error executing sub-agent"
                        ELSE "Error during project initialization")

\* The session prints the error of an exception that reaches it.
RaiseOutcome == IF Len(stack) = 1 THEN "error" ELSE outcome

\* A tool that resolves every name.
Resolves_Any(f, name) == TRUE

\* tools_by_name.get(tool_name) (graph.py lines 89, 101), and ToolNode's
\* lookup of the call's name among its tools.
Resolves(f, name) == name \in f.tools

\* The answers to a call whose name does not resolve: graph.py line 123,
\* and ToolNode's message (which goes on to list the graph's tools).
ToolNotFound(name) == "Error: Tool '" \o name \o "' not found"
InvalidTool(name) == "Error: " \o name \o " is not a valid tool"

\* What tool.invoke(tool_args) does: a schema fault, a nested graph, or the
\* tool's body.
InvokeKind(call) ==
    IF call.args.shape # "valid" THEN "validation_fault"
    ELSE IF call.name = "init" THEN "delegate"
    ELSE IF call.name = "task" /\ call.args.subagent_type \in ValidTypes
         THEN "delegate"
    ELSE "run"

ExecEntry(f, call) ==
    [id |-> call.id, name |-> call.name, kind |-> f.kind,
     depth |-> Len(stack), auto |-> auto_approve]

\* Call i of the top graph resolves (found) or not, is invoked, and its
\* fault, if any, becomes the content of its tool message.
Dispatch(i, found, notfound, faultmsg) ==
    LET f == Top
        call == Calls(f)[i]
    IN  IF ~found
        THEN /\ stack' = SetTop(Finish(f, i, notfound))
             /\ UNCHANGED <<disk, copert_md, executed>>
        ELSE IF InvokeKind(call) = "validation_fault"
        THEN /\ stack' = SetTop(Finish(f, i, faultmsg))
             /\ UNCHANGED <<disk, copert_md, executed>>
        ELSE IF InvokeKind(call) = "delegate"
        THEN /\ stack' = Append(SetTop([f EXCEPT !.pc = "sub", !.cur = i]),
                                SubGraph(call))
             /\ executed' = Append(executed, ExecEntry(f, call))
             /\ UNCHANGED <<disk, copert_md>>
        ELSE LET r == RunTool(call, disk, copert_md)
             IN  /\ stack' = SetTop(Finish(f, i, r.content))
                 /\ disk' = r.disk
                 /\ copert_md' = r.copert_md
                 /\ executed' = Append(executed, ExecEntry(f, call))

(***************************************************************************)
(* The approval manager, copert/utils/approval.py.                         *)
(***************************************************************************)
\* A manager that approves without a prompt what it has approved before.
request_approval_Remembering(auto, call) ==
    IF auto THEN "approved"
    ELSE IF call.name \notin GatedTools THEN "approved"
    ELSE IF \E k \in 1..Len(approval_history) :
              /\ approval_history[k].tool = call.name
              /\ approval_history[k].approved
    THEN "approved"
    ELSE IF call.args.shape = "wrong_type" THEN "fault"
    ELSE "prompt"

\* request_approval, lines 55-81, up to the prompt: approved without a
\* prompt, a prompt, or a fault of the preview (a file_path that is not a
\* string has no endswith: lines 113, 174, 236).
request_approval(auto, call) ==
    IF auto THEN "approved"
    ELSE IF call.name \notin GatedTools THEN "approved"
    ELSE IF call.args.shape = "wrong_type" THEN "fault"
    ELSE "prompt"

\* A tools node that takes the calls of the message in any order.
RequestApproval_AnyOrder ==
    /\ stack # <<>>
    /\ Top.approval
    /\ Top.pc = "tools"
    /\ Top.steps < Top.limit
    /\ \E i \in Top.todo :
         LET r == request_approval(auto_approve, Calls(Top)[i])
         IN  /\ stack' = IF r = "fault" THEN Raise
                         ELSE SetTop([Top EXCEPT !.cur = i,
                                                 !.approved = (r = "approved"),
                                                 !.pc = IF r = "prompt" THEN "prompt"
                                                        ELSE "invoke"])
             /\ outcome' = IF r = "fault" THEN RaiseOutcome ELSE outcome
    /\ UNCHANGED <<messages, approval_history, auto_approve, manager,
                   executed, copert_md, llm, turns>>
    /\ UNCHANGED editVars

\* approval_tool_node, lines 91-97: the next call of the loop goes to the
\* approval manager.
RequestApproval ==
    /\ stack # <<>>
    /\ Top.approval
    /\ Top.pc = "tools"
    /\ Top.steps < Top.limit
    /\ Top.todo # {}
    /\ LET i == CHOOSE j \in Top.todo : \A k \in Top.todo : j <= k
           r == request_approval(auto_approve, Calls(Top)[i])
       IN  /\ stack' = IF r = "fault" THEN Raise
                       ELSE SetTop([Top EXCEPT !.cur = i,
                                               !.approved = (r = "approved"),
                                               !.pc = IF r = "prompt" THEN "prompt"
                                                      ELSE "invoke"])
           /\ outcome' = IF r = "fault" THEN RaiseOutcome ELSE outcome
    /\ UNCHANGED <<messages, approval_history, auto_approve, manager,
                   executed, copert_md, llm, turns>>
    /\ UNCHANGED editVars

\* What the user may type at the prompt, character by character.
Responses ==
    {<<"y">>, <<"Y", "E", "S">>, <<" ", "y", "e", "s", " ">>,
     <<"n">>, <<"N", "o">>, <<"n", "o", " ">>,
     <<>>, <<" ">>, <<"y", "y">>, <<"o", "k">>, <<"n", "o", "p", "e">>,
     <<"y", " ", "e", "s">>}

\* str.strip and str.lower
RECURSIVE LStrip(_)
LStrip(s) == IF s # <<>> /\ Head(s) = " " THEN LStrip(Tail(s)) ELSE s
RECURSIVE RStrip(_)
RStrip(s) ==
    IF s # <<>> /\ s[Len(s)] = " " THEN RStrip(SubSeq(s, 1, Len(s) - 1)) ELSE s
Strip(s) == RStrip(LStrip(s))
LowerChar(c) ==
    CASE c = "Y" -> "y" [] c = "E" -> "e" [] c = "S" -> "s"
      [] c = "N" -> "n" [] c = "O" -> "o" [] OTHER -> c
Lower(s) == [k \in 1..Len(s) |-> LowerChar(s[k])]

\* A prompt that takes the response as typed.
Answer_AsTyped(raw) ==
    IF raw \in {<<"y">>, <<"y", "e", "s">>} THEN "y"
    ELSE IF raw \in {<<"n">>, <<"n", "o">>} THEN "n"
    ELSE "other"

\* The prompt loops, lines 127-135, 191-199, 260-268: the response is
\* trimmed and lower-cased; y or yes approves, n or no rejects, anything
\* else asks again.
Answer(raw) ==
    LET response == Lower(Strip(raw))
    IN  IF response \in {<<"y">>, <<"y", "e", "s">>} THEN "y"
        ELSE IF response \in {<<"n">>, <<"n", "o">>} THEN "n"
        ELSE "other"

\* A prompt that records the approvals only.
PromptResponse_ApprovalsOnly ==
    /\ stack # <<>>
    /\ Top.pc = "prompt"
    /\ \E response \in {"y", "n", "other"} :
         IF response = "other"
         THEN UNCHANGED <<stack, approval_history>>
         ELSE /\ approval_history' =
                   IF response = "y"
                   THEN Append(approval_history,
                               [tool |-> Calls(Top)[Top.cur].name, file |-> "f",
                                approved |-> TRUE,
                                call |-> Calls(Top)[Top.cur].id])
                   ELSE approval_history
              /\ stack' = SetTop([Top EXCEPT !.approved = (response = "y"),
                                             !.pc = "invoke"])
    /\ UNCHANGED <<messages, auto_approve, manager, executed, copert_md,
                   outcome, llm, turns>>
    /\ UNCHANGED editVars

\* get_approval_stats, lines 283-296.
get_approval_stats ==
    LET idx == 1..Len(approval_history)
    IN  [approved |-> Cardinality({k \in idx : approval_history[k].approved}),
         rejected |-> Cardinality({k \in idx : ~approval_history[k].approved}),
         total |-> Len(approval_history)]

\* _approve_write / _approve_edit / _approve_multiedit: the prompt loop and
\* the recording of the decision (lines 124-147, 188-211, 257-281).  The
\* field call is a history field: the id of the tool call decided.
PromptAnswer(raw) ==
    /\ stack # <<>>
    /\ Top.pc = "prompt"
    /\ LET response == Answer(raw)
       IN  IF response = "other"
           THEN UNCHANGED <<stack, approval_history>>
           ELSE /\ approval_history' =
                     Append(approval_history,
                            [tool |-> Calls(Top)[Top.cur].name, file |-> "f",
                             approved |-> (response = "y"),
                             call |-> Calls(Top)[Top.cur].id])
                /\ stack' = SetTop([Top EXCEPT !.approved = (response = "y"),
                                               !.pc = "invoke"])
    /\ UNCHANGED <<messages, auto_approve, manager, executed, copert_md,
                   outcome, llm, turns>>
    /\ UNCHANGED editVars

PromptResponse ==
    /\ stack # <<>>
    /\ \E raw \in Responses : PromptAnswer(raw)

\* approval_tool_node, lines 99-136: execute the approved call, or answer
\* the rejected one.
InvokeTool ==
    /\ stack # <<>>
    /\ Top.pc = "invoke"
    /\ IF Top.approved
       THEN Dispatch(Top.cur, Resolves(Top, Calls(Top)[Top.cur].name),
                     ToolNotFound(Calls(Top)[Top.cur].name),
                     "Error: validation")
       ELSE /\ stack' = SetTop(Finish(Top, Top.cur, "Operation rejected by user"))
            /\ UNCHANGED <<disk, copert_md, executed>>
    /\ UNCHANGED <<messages, approval_history, auto_approve, manager,
                   outcome, llm, turns>>
    /\ UNCHANGED med

\* ToolNode(tools), line 143 (langgraph.prebuilt): every call is run, an
\* unknown name and a fault of the call become error messages; the calls
\* of one message are handed to a thread pool, so their order is free.
ToolNodeRunOne ==
    /\ stack # <<>>
    /\ ~Top.approval
    /\ Top.pc = "tools"
    /\ Top.steps < Top.limit
    /\ \E i \in Top.todo :
         Dispatch(i, Resolves(Top, Calls(Top)[i].name),
                  InvalidTool(Calls(Top)[i].name),
                  "Error: validation. Please fix your mistakes.")
    /\ UNCHANGED <<messages, approval_history, auto_approve, manager,
                   outcome, llm, turns>>
    /\ UNCHANGED med

\* ToolNode(tools), line 143, thread by thread: ToolNode hands the calls of
\* the message to the threads of an executor (executor.map over
\* _run_one) and collects their results in the order of the calls.  A
\* thread's tool reads the file when it starts.
PoolStart ==
    /\ stack # <<>>
    /\ ~Top.approval
    /\ Top.pc = "tools"
    /\ Top.steps < Top.limit
    /\ \E i \in Top.todo :
         /\ \A t \in Top.pool : t.i # i
         /\ Resolves(Top, Calls(Top)[i].name)
         /\ InvokeKind(Calls(Top)[i]) = "run"
         /\ stack' = SetTop([Top EXCEPT !.pool = @ \cup {[i |-> i, read |-> disk]}])
    /\ UNCHANGED <<messages, approval_history, auto_approve, manager,
                   executed, copert_md, outcome, llm, turns>>
    /\ UNCHANGED editVars

\* A thread's tool finishes: it writes what it made of the content it
\* read, if it writes, and returns its result.
PoolFinish ==
    /\ stack # <<>>
    /\ Top.pc = "tools"
    /\ \E t \in Top.pool :
         LET call == Calls(Top)[t.i]
             r == RunTool(call, t.read, copert_md)
         IN  /\ disk' = IF r.disk = t.read THEN disk ELSE r.disk
             /\ copert_md' = r.copert_md
             /\ executed' = Append(executed, ExecEntry(Top, call))
             /\ stack' = SetTop([Finish(Top, t.i, r.content)
                                   EXCEPT !.pool = @ \ {t}])
    /\ UNCHANGED <<messages, approval_history, auto_approve, manager,
                   outcome, llm, turns>>
    /\ UNCHANGED med

\* The tools node returns {"messages": tool_messages} (line 138); the edge
\* tools -> agent (line 186); the session appends the messages.
DispatchEnd ==
    /\ stack # <<>>
    /\ Top.pc = "tools"
    /\ Top.steps < Top.limit
    /\ Top.todo = {}
    /\ stack' = SetTop([Top EXCEPT !.msgs = @ \o Top.acc, !.steps = @ + 1,
                                   !.dispatches = @ + 1,
                                   !.pc = "agent", !.acc = <<>>, !.cur = 0])
    /\ messages' = IF Len(stack) = 1 THEN SessionAppend(Top.acc) ELSE messages
    /\ UNCHANGED <<approval_history, auto_approve, manager, executed,
                   copert_md, outcome, llm, turns>>
    /\ UNCHANGED editVars

(***************************************************************************)
(* Delegation, copert/tools/task/delegate.py and tools/project/init.py.    *)
(***************************************************************************)
Last(S) == CHOOSE j \in S : \A k \in S : k <= j

\* delegate.py lines 127-135: the last message with content, of any role.
TaskReport(msgs) ==
    LET with == {k \in 1..Len(msgs) : msgs[k].content # ""}
    IN  IF with = {} THEN "Error: Sub-agent did not return a final report"
        ELSE msgs[Last(with)].content

\* init.py lines 94-109
InitReport(msgs, cm) ==
    IF cm THEN "Successfully created COPERT.md"
    ELSE IF \E k \in 1..Len(msgs) : msgs[k].role = "ai" /\ msgs[k].content # ""
         THEN "Init completed but COPERT.md was not found"
         ELSE "Sub-agent completed but did not return a response"

\* subagent_graph.invoke returns: the nested graph reached END.
SubReturn ==
    /\ Len(stack) > 1
    /\ Top.pc = "end"
    /\ stack' = ReturnToParent(IF Top.via = "task" THEN TaskReport(Top.msgs)
                               ELSE InitReport(Top.msgs, copert_md))
    /\ UNCHANGED <<messages, approval_history, auto_approve, manager,
                   executed, copert_md, outcome, llm, turns>>
    /\ UNCHANGED editVars

\* A nested run whose recursion error reaches the session.
RecursionAbort_Propagates ==
    /\ stack # <<>>
    /\ Top.pc \in {"agent", "tools"}
    /\ Top.steps >= Top.limit
    /\ stack' = <<>>
    /\ outcome' = "error"
    /\ UNCHANGED <<messages, approval_history, auto_approve, manager,
                   executed, copert_md, llm, turns>>
    /\ UNCHANGED editVars

\* A graph that is not stopped at its recursion limit and runs no further.
RecursionAbort_Stuck ==
    /\ stack # <<>>
    /\ Top.pc \in {"agent", "tools"}
    /\ Top.steps >= Top.limit
    /\ UNCHANGED vars

\* The graph has run its recursion limit of supersteps and is not at END:
\* GraphRecursionError.  The session reports it (session.py lines 254-255),
\* task returns its diagnostic (delegate.py lines 137-151), init its error
\* (init.py lines 111-112).
RecursionAbort ==
    /\ stack # <<>>
    /\ Top.pc \in {"agent", "tools"}
    /\ Top.steps >= Top.limit
    /\ stack' = IF Len(stack) = 1 THEN <<>>
                ELSE ReturnToParent(
                       IF Top.via = "task"
                       THEN "Error: Sub-agent exceeded maximum iterations (50 steps)"
                       ELSE "Error during project initialization")
    /\ outcome' = RaiseOutcome
    /\ UNCHANGED <<messages, approval_history, auto_approve, manager,
                   executed, copert_md, llm, turns>>
    /\ UNCHANGED editVars

\* llm_with_tools.invoke raises (line 66): the model is unavailable.
LLMFault ==
    /\ stack # <<>>
    /\ Top.pc = "agent"
    /\ Top.steps < Top.limit
    /\ stack' = Raise
    /\ outcome' = RaiseOutcome
    /\ UNCHANGED <<messages, approval_history, auto_approve, manager,
                   executed, copert_md, llm, turns>>
    /\ UNCHANGED editVars

(***************************************************************************)
(* The session, copert/cli/session.py.                                     *)
(***************************************************************************)
\* process_message, lines 158-168: append the user message, start the graph
\* on the session's messages.
UserMessage ==
    /\ stack = <<>>
    /\ med.pc = "idle"
    /\ turns + (IF llm.mode = "free" THEN llm.calls ELSE 0)
         < (IF llm.mode \in {"any", "pair", "gate"} THEN MaxTurns ELSE MaxInputs)
    /\ messages' = Append(messages, HumanMessage("u"))
    /\ stack' = <<NewGraph("main", "", ALL_TOOLS, manager,
                           DefaultRecursionLimit, messages')>>
    /\ turns' = turns + 1
    /\ outcome' = "running"
    /\ UNCHANGED <<approval_history, auto_approve, manager, executed,
                   copert_md, llm>>
    /\ UNCHANGED editVars

\* process_message, lines 239-250: the stream is exhausted, the final
\* response is displayed.
TurnEnd ==
    /\ Len(stack) = 1
    /\ Top.pc = "end"
    /\ stack' = <<>>
    /\ outcome' = "response"
    /\ UNCHANGED <<messages, approval_history, auto_approve, manager,
                   executed, copert_md, llm, turns>>
    /\ UNCHANGED editVars

\* An interrupt that takes back the last message of the turn.
Interrupt_Rollback ==
    /\ stack # <<>>
    /\ stack' = <<>>
    /\ outcome' = "cancelled"
    /\ messages' = SubSeq(messages, 1, Len(messages) - 1)
    /\ UNCHANGED <<approval_history, auto_approve, manager,
                   executed, copert_md, llm, turns>>
    /\ UNCHANGED editVars

\* KeyboardInterrupt while the turn runs (lines 252-253): the turn ends, the
\* messages stay as they are.
Interrupt ==
    /\ stack # <<>>
    /\ stack' = <<>>
    /\ outcome' = "cancelled"
    /\ UNCHANGED <<messages, approval_history, auto_approve, manager,
                   executed, copert_md, llm, turns>>
    /\ UNCHANGED editVars

\* clear_history, lines 105-109 (the command /clear)
Clear ==
    /\ stack = <<>>
    /\ med.pc = "idle"
    /\ messages' = <<>>
    /\ UNCHANGED <<stack, approval_history, auto_approve, manager, executed,
                   copert_md, outcome, llm, turns>>
    /\ UNCHANGED editVars

\* set_auto_approve, approval.py lines 45-53
SetAutoApprove ==
    /\ stack = <<>>
    /\ manager
    /\ turns + llm.calls < MaxInputs
    /\ \E enabled \in BOOLEAN : auto_approve' = enabled
    /\ UNCHANGED <<messages, stack, approval_history, manager, executed,
                   copert_md, outcome, llm, turns>>
    /\ UNCHANGED editVars

(***************************************************************************)
(* Specifications.                                                         *)
(***************************************************************************)
InitSession ==
    /\ disk = [kind |-> "file", data |-> <<"a">>]
    /\ med = MedIdle
    /\ messages = <<>>
    /\ stack = <<>>
    /\ approval_history = <<>>
    /\ executed = <<>>
    /\ copert_md = FALSE
    /\ outcome = ""
    /\ turns = 0

\* A session whose main graph has an approval manager or has none
\* (create_agent_graph's approval_manager; session.py line 41 passes none).
Init ==
    /\ InitSession
    /\ manager \in BOOLEAN
    /\ auto_approve \in (IF manager THEN BOOLEAN ELSE {FALSE})
    /\ llm = [mode |-> "free", calls |-> 0]

Next ==
    \/ UserMessage
    \/ AgentNode
    \/ RequestApproval
    \/ PromptResponse
    \/ InvokeTool
    \/ ToolNodeRunOne
    \/ DispatchEnd
    \/ SubReturn
    \/ LLMFault
    \/ TurnEnd
    \/ Interrupt
    \/ Clear
    \/ SetAutoApprove

Spec == Init /\ [][Next]_vars

\* The session as session.py builds it (no approval manager), with a model
\* that never answers with text only.
InitCeiling ==
    /\ InitSession
    /\ manager = FALSE
    /\ auto_approve = FALSE
    /\ llm \in {[mode |-> m, calls |-> 0] : m \in {"loop_read", "loop_task"}}

NextCeiling ==
    \/ UserMessage
    \/ AgentNode
    \/ ToolNodeRunOne
    \/ DispatchEnd
    \/ RecursionAbort

SpecCeiling == InitCeiling /\ [][NextCeiling]_vars

\* The session as session.py builds it with a model that answers every
\* call, with tool calls forever or with text when it likes; the graph
\* runs each node it has scheduled, and the tools return.
InitTermination ==
    /\ InitSession
    /\ manager = FALSE
    /\ auto_approve = FALSE
    /\ llm \in {[mode |-> m, calls |-> 0] : m \in {"loop_read", "loop_task", "any"}}

NextTermination ==
    \/ UserMessage
    \/ AgentNode
    \/ ToolNodeRunOne
    \/ DispatchEnd
    \/ SubReturn
    \/ TurnEnd
    \/ RecursionAbort

SpecTermination ==
    /\ InitTermination
    /\ [][NextTermination]_vars
    /\ WF_vars(AgentNode)
    /\ WF_vars(ToolNodeRunOne)
    /\ WF_vars(DispatchEnd)
    /\ WF_vars(SubReturn)
    /\ WF_vars(TurnEnd)
    /\ WF_vars(RecursionAbort)

\* The session as session.py builds it, without an approval manager, with
\* a model that sends two tool calls in one message: the tools node is
\* ToolNode, whose executor runs the calls on threads.
InitToolNode ==
    /\ InitSession
    /\ manager = FALSE
    /\ auto_approve = FALSE
    /\ llm = [mode |-> "pair", calls |-> 0]

NextToolNode ==
    \/ UserMessage
    \/ AgentNode
    \/ PoolStart
    \/ PoolFinish
    \/ DispatchEnd
    \/ TurnEnd

SpecToolNode == InitToolNode /\ [][NextToolNode]_vars

\* A session whose graph is built with an approval manager
\* (create_agent_graph(approval_manager=...)), auto-approve on or off, and
\* a model that sends one or two tool calls and then ends the turn.
InitGate ==
    /\ InitSession
    /\ manager = TRUE
    /\ auto_approve \in BOOLEAN
    /\ llm = [mode |-> "gate", calls |-> 0]

NextGate ==
    \/ UserMessage
    \/ AgentNode
    \/ RequestApproval
    \/ PromptResponse
    \/ InvokeTool
    \/ DispatchEnd
    \/ TurnEnd

SpecGate == InitGate /\ [][NextGate]_vars

\* One multiedit request against every state of the file.
InitEdit ==
    /\ disk \in DiskStates
    /\ med = MedIdle
    /\ messages = <<>>
    /\ stack = <<>>
    /\ approval_history = <<>>
    /\ auto_approve = FALSE
    /\ manager = FALSE
    /\ executed = <<>>
    /\ copert_md = FALSE
    /\ outcome = ""
    /\ llm = [mode |-> "free", calls |-> 0]
    /\ turns = 0

\* A request of single replacements and its inverse against every content
\* of the file.
InitRoundTrip ==
    /\ InitEdit
    /\ disk.kind = "file"

NextRoundTrip ==
    \/ RoundTripForward
    \/ RoundTripInverse

SpecRoundTrip == InitRoundTrip /\ [][NextRoundTrip]_vars

NextOneEdit ==
    \/ EditFileCall
    \/ MultieditOneCall

SpecOneEdit == InitRoundTrip /\ [][NextOneEdit]_vars

NextEdit ==
    \/ MultieditCall
    \/ MultieditRead
    \/ MultieditApply
    \/ MultieditWrite
    \/ MultieditRestore

SpecEdit == InitEdit /\ [][NextEdit]_vars

(***************************************************************************)
(* Properties.                                                             *)
(***************************************************************************)
\* The conversations held: the session's and those of the running graphs.
Conversations == {messages} \cup {stack[d].msgs : d \in 1..Len(stack)}

HasCalls(m) == m.role = "ai" /\ m.tool_calls # <<>>

\* The tool messages that directly follow position k of msgs.
RunLen(msgs, k) ==
    Cardinality({j \in (k + 1)..Len(msgs) :
                   \A m \in (k + 1)..j : msgs[m].role = "tool"})

\* The tool messages after the assistant message at k are as many as its
\* calls and carry the same ids, each as often as the calls do.
AnswersCalls(msgs, k) ==
    LET calls == msgs[k].tool_calls
        n == RunLen(msgs, k)
        ids == {calls[i].id : i \in 1..Len(calls)}
               \cup {msgs[k + j].tool_call_id : j \in 1..n}
    IN  /\ n = Len(calls)
        /\ \A v \in ids :
             Cardinality({i \in 1..Len(calls) : calls[i].id = v})
             = Cardinality({j \in 1..n : msgs[k + j].tool_call_id = v})

\* C1 (as stated): a run of the tool dispatch of an assistant message
\* with N tool calls puts exactly N tool results into the conversation,
\* and their tool_call_ids are a permutation of the ids of the calls,
\* whatever the calls are: approved, rejected, naming no tool, or faulting.
\* So the message after a tool-calling assistant message is the first of
\* its N results (unless the user interrupted and a user message follows),
\* a finished dispatch holds one result per call, and no turn ends with an
\* error while the calls of its last assistant message have no results.
C1_OneResultPerCall ==
    /\ \A msgs \in Conversations : \A k \in 1..(Len(msgs) - 1) :
         (HasCalls(msgs[k]) /\ msgs[k + 1].role # "human")
         => AnswersCalls(msgs, k)
    /\ \A d \in 1..Len(stack) :
         LET f == stack[d]
         IN  (f.pc = "tools" /\ f.todo = {})
             => /\ Len(f.acc) = Len(Calls(f))
                /\ \A i \in 1..Len(f.acc) :
                     /\ f.acc[i].role = "tool"
                     /\ f.acc[i].tool_call_id = Calls(f)[i].id
    /\ (outcome = "error" /\ messages # <<>>)
       => ~HasCalls(messages[Len(messages)])

\* C2 (as stated): every execution of write_file, edit_file or multiedit
\* while auto-approve is off is preceded by a recorded approving decision
\* for that call, and a call with a rejecting decision is never executed.
\* (call is the history field of the decision, auto that of the execution.)
C2_ApprovalGating ==
    /\ \A j \in 1..Len(executed) :
         (executed[j].name \in GatedTools /\ ~executed[j].auto)
         => \E h \in 1..Len(approval_history) :
              /\ approval_history[h].call = executed[j].id
              /\ approval_history[h].approved
    /\ \A h \in 1..Len(approval_history) :
         ~approval_history[h].approved
         => \A j \in 1..Len(executed) :
              executed[j].id # approval_history[h].call

\* The multiedit request failed in one of its operations.
OpFailureCodes == {"not_found", "ambiguous", "identical"}

\* The result of all operations in memory, and the contents after a proper
\* prefix of them.
FullResult == ApplyEdits(med.original, med.edits)
PartialResults ==
    {ApplyEdits(med.original, SubSeq(med.edits, 1, n)).content :
       n \in {m \in 1..(Len(med.edits) - 1) :
                ApplyEdits(med.original, SubSeq(med.edits, 1, m)).status = "ok"}}

\* The file holds neither what it held before the call nor the result of
\* all operations, but the result of a proper prefix of them.
HoldsProperPrefix ==
    /\ disk.kind = "file"
    /\ disk # med.pre
    /\ ~(FullResult.status = "ok" /\ disk.data = FullResult.content)
    /\ disk.data \in PartialResults

\* C3 (as stated): when an operation of a multiedit request fails, the file
\* is as it was before the call; the file is written at most once per
\* request, and only after every operation has succeeded in memory; the
\* file never holds the result of a proper prefix of the operations.
C3_WrittenAtMostOnce ==
    /\ (med.pc = "done" /\ med.result.code \in OpFailureCodes) => disk = med.pre
    /\ med.writes <= 1
    /\ med.writes > 0 => FullResult.status = "ok"
    /\ ~HoldsProperPrefix

\* C3 (amended): when an operation of a multiedit request fails, the file
\* is as it was before the call and was not written; the file is written
\* only after every operation has succeeded in memory, once, and a second
\* time (the original content) only when that write failed; a request that
\* succeeds leaves the result of all operations; unless a write failed, the
\* file never holds the result of a proper prefix of the operations.
C3_Atomicity ==
    /\ (med.pc = "done" /\ med.result.code \in OpFailureCodes)
       => (disk = med.pre /\ med.writes = 0)
    /\ (med.pc # "idle" /\ med.writes = 0) => disk = med.pre
    /\ med.writes > 0
       => (FullResult.status = "ok" /\ med.content = FullResult.content)
    /\ med.writes <= 2
    /\ med.writes = 2 => (med.pc = "done" /\ med.result.code = "write_error")
    /\ (med.pc = "done" /\ med.writes = 1)
       => /\ med.result.status = "ok"
          /\ disk = [kind |-> "file", data |-> FullResult.content]
    /\ (med.pc # "restore" /\ med.result.code # "write_error")
       => ~HoldsProperPrefix

\* The second operation failed after the first had changed the content in
\* memory, and the file is what it was.
C3_Witness ==
    /\ med.pc = "done"
    /\ med.result.code \in {"not_found", "ambiguous"}
    /\ med.result.op = 2
    /\ med.content # med.original
    /\ disk = med.pre

\* The states of the orchestrator's state machine.
Phase(f) ==
    IF f.pc = "agent" THEN "AwaitingModel"
    ELSE IF f.pc = "end" THEN "Terminal"
    ELSE "AwaitingToolResults"

\* C4: in every step of a run that goes on, a model response moves the run
\* to tool dispatch if and only if it is an assistant message with at least
\* one tool call, with or without text, and otherwise ends the turn; the
\* run leaves the model call only by a response; it leaves tool dispatch
\* only to the model call, with the results appended; a run that has ended
\* changes no more.
C4_Transitions ==
    [][\A d \in 1..Len(stack) :
         d <= Len(stack')
         => LET f == stack[d]
                g == stack'[d]
                p == Phase(f)
                q == Phase(g)
                r == g.msgs[Len(g.msgs)]
            IN  /\ (p = "AwaitingModel" /\ g.msgs # f.msgs)
                   => /\ g.msgs = Append(f.msgs, r)
                      /\ r.role = "ai"
                      /\ (q = "AwaitingToolResults") <=> (Len(r.tool_calls) >= 1)
                      /\ (q = "Terminal") <=> (Len(r.tool_calls) = 0)
                /\ (p = "AwaitingModel" /\ q # p) => g.msgs # f.msgs
                /\ (p = "AwaitingToolResults" /\ q # p)
                   => /\ q = "AwaitingModel"
                      /\ g.msgs = f.msgs \o f.acc
                      /\ g.dispatches = f.dispatches + 1
                /\ (p = "AwaitingToolResults" /\ g.msgs # f.msgs)
                   => q = "AwaitingModel"
                /\ p = "Terminal" => g = f]_vars

\* After a dispatch the model was called again and answered with text and
\* a tool call: the run is in tool dispatch.
C4_Witness ==
    /\ stack # <<>>
    /\ Top.dispatches >= 1
    /\ Top.pc = "tools"
    /\ Top.msgs[Len(Top.msgs)].content = "text"
    /\ HasCalls(Top.msgs[Len(Top.msgs)])

\* C5 (as stated): with a model that answers every call with a tool call,
\* a run, top-level or nested, makes no more model calls and no more
\* dispatches than the configured ceiling of round trips, and when it
\* halts at its limit it has made exactly that many of each.
C5_HaltsAtCeiling ==
    \A d \in 1..Len(stack) :
      LET f == stack[d]
      IN  /\ f.model_calls <= MaxIterations
          /\ f.dispatches <= MaxIterations
          /\ f.steps >= f.limit
             => (f.model_calls = MaxIterations /\ f.dispatches = MaxIterations)

\* The contents of a tool message for a name that resolves to no tool.
CalledNames == {m.name : m \in Menu}

NotFoundContents ==
    {ToolNotFound(n) : n \in CalledNames} \cup {InvalidTool(n) : n \in CalledNames}

\* C6: in a nested run of any sub-agent class, no tool outside the class's
\* declared subset is executed, and every tool result for a call naming
\* such a tool is a tool-not-found failure.
C6_ToolIsolation ==
    /\ \A j \in 1..Len(executed) :
         executed[j].depth >= 2
         => executed[j].name \in SubagentTools(executed[j].kind)
    /\ \A d \in 2..Len(stack) :
         LET f == stack[d]
             results == {f.msgs[k] : k \in 1..Len(f.msgs)}
                        \cup {f.acc[i] : i \in 1..Len(f.acc)}
         IN  \A m \in results :
               (m.role = "tool" /\ m.name \notin SubagentTools(f.kind))
               => m.content \in NotFoundContents

\* A nested run called bash, a tool of the full registry outside its
\* subset, and got the failure.
C6_Witness ==
    /\ Len(stack) = 2
    /\ \E k \in 1..Len(Top.msgs) :
         /\ Top.msgs[k].role = "tool"
         /\ Top.msgs[k].name = "bash"
         /\ Top.msgs[k].content \in NotFoundContents

\* C7: no sub-agent class's tool subset holds a delegation tool; at most
\* two runs are nested (one parent, one child); no delegation tool is
\* executed by a nested run.
C7_NoRedelegation ==
    /\ \A t \in ValidTypes : SubagentTools(t) \cap DelegationTools = {}
    /\ Len(stack) <= 2
    /\ \A j \in 1..Len(executed) :
         executed[j].name \in DelegationTools => executed[j].depth = 1

\* A nested run called task and got the failure.
C7_Witness ==
    /\ Len(stack) = 2
    /\ \E k \in 1..Len(Top.msgs) :
         /\ Top.msgs[k].role = "tool"
         /\ Top.msgs[k].name = "task"
         /\ Top.msgs[k].content \in NotFoundContents

\* C8 (as stated): in the session's history every tool result follows,
\* with only tool results between, an assistant message that holds a call
\* of its tool_call_id; and every tool-calling assistant message before a
\* user message is answered call by call.
C8_WellFormed ==
    /\ \A k \in 1..Len(messages) :
         messages[k].role = "tool"
         => \E j \in 1..(k - 1) :
              /\ HasCalls(messages[j])
              /\ \A m \in (j + 1)..(k - 1) : messages[m].role = "tool"
              /\ \E i \in 1..Len(messages[j].tool_calls) :
                   messages[j].tool_calls[i].id = messages[k].tool_call_id
    /\ \A k \in 1..Len(messages) :
         messages[k].role = "human"
         => \A j \in 1..(k - 1) :
              HasCalls(messages[j]) => AnswersCalls(messages, j)

IsPrefix(s, t) == Len(s) <= Len(t) /\ SubSeq(t, 1, Len(s)) = s

\* C9 (as stated): the history after any step has the history before it
\* as a prefix.
C9_AppendOnly == [][IsPrefix(messages, messages')]_vars

\* C9 (amended): every step other than the command /clear leaves the
\* history before it as a prefix of the history after it; /clear empties
\* the history.
C9_AppendOnlyButClear ==
    [][IsPrefix(messages, messages') \/ (Clear /\ messages' = <<>>)]_vars

\* The history holds the first turn, tool results included, and the user
\* message of the second.
C9_Witness ==
    /\ turns = 2
    /\ messages # <<>>
    /\ messages[1].role = "human"
    /\ messages[Len(messages)].role = "human"
    /\ \E k \in 1..Len(messages) : messages[k].role = "tool"

\* A call whose arguments do not fit the tool's schema.
Faulting(call) == InvokeKind(call) = "validation_fault"

FailureContents ==
    {"Error: validation", "Error: validation. Please fix your mistakes.",
     "Error executing sub-agent", "Error during project initialization"}
    \cup NotFoundContents

\* C10 (as stated): while a dispatch holds a faulting call, every step
\* other than the user's interrupt keeps the run, and a faulting call that
\* leaves the dispatch leaves a tool result with a failure content; a
\* nested run that ends, by a fault or not, leaves a tool result in its
\* parent, which goes on with its dispatch.
C10_FaultsBecomeResults ==
    [][outcome' = "cancelled"
       \/ /\ \A d \in 1..Len(stack) :
               LET f == stack[d]
               IN  (f.pc \in {"tools", "prompt", "invoke"}
                    /\ \E i \in f.todo : Faulting(Calls(f)[i]))
                   => /\ d <= Len(stack')
                      /\ \A i \in f.todo \ stack'[d].todo :
                           Faulting(Calls(f)[i])
                           => /\ stack'[d].acc[i].role = "tool"
                              /\ stack'[d].acc[i].content \in FailureContents
          /\ Len(stack) >= 2 /\ Len(stack') < Len(stack)
             => /\ Len(stack') = Len(stack) - 1
                /\ stack'[Len(stack')].pc = "tools"
                /\ LET g == stack'[Len(stack')]
                   IN  g.acc[stack[Len(stack')].cur].role = "tool"]_vars

\* The tool results held by a run: those of its conversation and those of
\* the dispatch in progress.
ToolResults(f) ==
    {m \in {f.msgs[k] : k \in 1..Len(f.msgs)} \cup {f.acc[i] : i \in 1..Len(f.acc)} :
       m.role = "tool"}

\* The registry of the graph that made an execution: the full registry at
\* the top level, the class's subset in a nested run.
RegistryOf(e) == IF e.depth = 1 THEN ALL_TOOLS ELSE SubagentTools(e.kind)

RECURSIVE CumulativeContent(_, _, _)
CumulativeContent(original, edits, n) ==
    IF n = 0 THEN original
    ELSE LET c == CumulativeContent(original, edits, n - 1)
             e == edits[n]
         IN  Replace(c, e.old_string, e.new_string,
                     IF e.replace_all THEN -1 ELSE 1)

Cum(n) == CumulativeContent(med.original, med.edits, n)

\* The request went through all its operations in memory.
AllApplied ==
    \/ med.pc \in {"write", "restore"}
    \/ med.pc = "done" /\ med.result.code \in {"applied", "write_error"}

\* C12: operation i of a multiedit request is matched and applied against
\* the content operations 1..i-1 have produced: the loop holds that
\* content; an operation fails as not found exactly when its match-text
\* is absent from it, whether or not the original held it; a request that
\* went through has found every match-text in it.
C12_Cumulative ==
    /\ med.pc = "apply" => med.content = Cum(med.i - 1)
    /\ (med.pc = "apply" \/ AllApplied)
       => \A j \in 1..(med.i - 1) : Contains(Cum(j - 1), med.edits[j].old_string)
    /\ AllApplied => (med.i = Len(med.edits) + 1 /\ med.content = Cum(Len(med.edits)))
    /\ (med.pc = "done" /\ med.result.code = "not_found")
       => /\ ~Contains(Cum(med.result.op - 1), med.edits[med.result.op].old_string)
          /\ \A j \in 1..(med.result.op - 1) :
               Contains(Cum(j - 1), med.edits[j].old_string)

\* The second operation's match-text is absent from the original and was
\* brought in by the first: the request succeeded.
C12_Witness ==
    /\ med.pc = "done"
    /\ med.result.status = "ok"
    /\ Len(med.edits) = 2
    /\ ~Contains(med.original, med.edits[2].old_string)
    /\ Contains(Cum(1), med.edits[2].old_string)

\* The places of content c at which the text p stands.
Positions(c, p) == {k \in 1..(Len(c) - Len(p) + 1) : IsAt(c, p, k)}

\* c with the text of length n at place k replaced by new.
ReplaceAt(c, k, n, new) ==
    SubSeq(c, 1, k - 1) \o new \o SubSeq(c, k + n, Len(c))

\* An operation that may be applied: both fields, and they differ.
WellFormedEdit(e) == e.has_old /\ e.has_new /\ e.old_string # e.new_string

\* C13 (as stated): an operation without replace_all fails whenever its
\* match-text stands at more than one place of the accumulated content,
\* and when it stands at exactly one place, exactly that place is
\* replaced; an operation fails as ambiguous only without replace_all and
\* with more than one place; edit_file does the same on the file.
C13_AmbiguousTarget ==
    /\ (med.pc = "apply" \/ AllApplied)
       => \A j \in 1..(med.i - 1) :
            LET e == med.edits[j]
                c == Cum(j - 1)
                at == Positions(c, e.old_string)
            IN  ~e.replace_all
                => /\ Cardinality(at) = 1
                   /\ \A k \in at : Cum(j) = ReplaceAt(c, k, Len(e.old_string),
                                                       e.new_string)
    /\ (med.pc = "done" /\ med.result.code = "ambiguous")
       => LET e == med.edits[med.result.op]
          IN  /\ ~e.replace_all
              /\ Cardinality(Positions(Cum(med.result.op - 1), e.old_string)) > 1
    /\ disk.kind = "file"
       => \A e \in {x \in Edits : WellFormedEdit(x) /\ ~x.replace_all} :
            LET at == Positions(disk.data, e.old_string)
            IN  /\ Cardinality(at) > 1 => EditFile(disk, e).disk = disk
                /\ \A k \in at :
                     Cardinality(at) = 1
                     => EditFile(disk, e).disk.data
                        = ReplaceAt(disk.data, k, Len(e.old_string), e.new_string)

\* The operations of the request whose match-text equals its replacement.
NoOps == {j \in 1..Len(med.edits) :
            /\ med.edits[j].has_old /\ med.edits[j].has_new
            /\ med.edits[j].old_string = med.edits[j].new_string}

\* C14: a multiedit request with an operation, at any place, whose
\* match-text equals its replacement-text fails before the file is read:
\* no content is read, no operation applied, nothing written, the file as
\* before; when the path is a file and no operation before the first such
\* lacks a field, that operation is the failure reported, whatever the
\* operations before it would have done to the content.  edit_file with
\* equal texts fails and leaves the file.
C14_EagerNoOp ==
    /\ (med.pc # "idle" /\ NoOps # {})
       => /\ med.pc = "done"
          /\ med.result.status = "error"
          /\ med.i = 0 /\ med.content = <<>> /\ med.writes = 0
          /\ disk = med.pre
          /\ LET first == CHOOSE j \in NoOps : \A k \in NoOps : j <= k
             IN  (/\ med.pre.kind \in {"file", "binary"}
                  /\ \A k \in 1..(first - 1) :
                       med.edits[k].has_old /\ med.edits[k].has_new)
                 => med.result = Err("identical", first)
    /\ \A e \in {x \in Edits : x.has_old /\ x.has_new /\ x.old_string = x.new_string} :
         /\ EditFile(disk, e).disk = disk
         /\ EditFile(disk, e).content
            \in {"Error: File not found", "Error: Path is not a file",
                 "Error: old_string and new_string must be different"}

\* The second operation has equal texts and is the failure reported; the
\* first would not have found its match-text in the file.
C14_Witness ==
    /\ med.pc = "done"
    /\ med.result = Err("identical", 2)
    /\ med.pre.kind = "file"
    /\ ~Contains(med.pre.data, med.edits[1].old_string)

\* A finished request of two operations (A -> B), (C -> D) on a file, the
\* first of which applies.
TwoOps ==
    /\ med.pc = "done"
    /\ Len(med.edits) = 2
    /\ med.pre.kind = "file"
    /\ med.result.code \notin {"read_error", "write_error"}
    /\ \A j \in 1..2 : WellFormedEdit(med.edits[j])
    /\ ApplyOne(med.pre.data, med.edits[1], 1).status = "ok"

\* C15 (as stated): when C is absent from the original content and
\* appears only after A -> B is applied, the request fails naming
\* operation 2 and the file is as before the call.
C15_FailsAtSecond ==
    (/\ TwoOps
     /\ ~Contains(med.pre.data, med.edits[2].old_string)
     /\ Contains(ApplyOne(med.pre.data, med.edits[1], 1).content,
                 med.edits[2].old_string))
    => /\ med.result.status = "error"
       /\ med.result.op = 2
       /\ disk = med.pre

\* C15 (amended): when C is absent from the content A -> B leaves, the
\* request fails as not found naming operation 2 and the file is as before
\* the call, never written; when C is absent from the original and
\* appears once A -> B is applied, operation 2 finds it: the request fails
\* only if C is then ambiguous, and otherwise succeeds and the file holds
\* the result of both operations.
C15_SecondSeesFirst ==
    TwoOps
    => LET c1 == ApplyOne(med.pre.data, med.edits[1], 1).content
           e2 == med.edits[2]
       IN  /\ ~Contains(c1, e2.old_string)
              => /\ med.result = Err("not_found", 2)
                 /\ disk = med.pre /\ med.writes = 0
           /\ (/\ ~Contains(med.pre.data, e2.old_string)
               /\ Contains(c1, e2.old_string)
               /\ (e2.replace_all \/ Count(c1, e2.old_string) = 1))
              => /\ med.result.status = "ok"
                 /\ disk = [kind |-> "file",
                            data |-> Replace(c1, e2.old_string, e2.new_string,
                                             IF e2.replace_all THEN -1 ELSE 1)]

\* A is replaced by B in memory, C is in neither content: the request has
\* failed naming operation 2 and the file is untouched.
C15_Witness ==
    /\ TwoOps
    /\ med.result = Err("not_found", 2)
    /\ med.content # med.pre.data
    /\ ~Contains(med.pre.data, med.edits[2].old_string)
    /\ disk = med.pre

\* The place at which operation j stands in the original content, when it
\* stands at exactly one.
OriginalPlace(j) ==
    CHOOSE k \in Positions(med.original, med.edits[j].old_string) : TRUE

\* Every operation of the request stands at exactly one place of the
\* original content, and no two of these places share a character.
NonOverlapping ==
    /\ \A j \in 1..Len(med.edits) :
         Cardinality(Positions(med.original, med.edits[j].old_string)) = 1
    /\ \A j, k \in 1..Len(med.edits) :
         j < k
         => \/ OriginalPlace(j) + Len(med.edits[j].old_string) <= OriginalPlace(k)
            \/ OriginalPlace(k) + Len(med.edits[k].old_string) <= OriginalPlace(j)

\* C16 (as stated): after a successful request of single, unambiguous,
\* non-overlapping replacements, the inverse request succeeds and the file
\* holds the original content.
C16_InverseRoundTrip ==
    (med.pc = "inverse" /\ NonOverlapping)
    => (med.result.status = "ok" /\ disk.data = med.original)

\* Each operation's replacement text stands at exactly one place of the
\* content that operation has produced.
InverseUnambiguous ==
    \A j \in 1..Len(med.edits) :
      Cardinality(Positions(Cum(j), med.edits[j].new_string)) = 1

\* C16 (amended): after a successful request of single replacements in
\* which each operation's replacement text stands at exactly one place of
\* the content that operation produced, the inverse request succeeds and
\* the file holds the original content.
C16_InverseWhenUnambiguous ==
    (med.pc = "inverse" /\ InverseUnambiguous)
    => (med.result.status = "ok" /\ disk.data = med.original)

\* Two operations changed the content and their inverse brought the
\* original back.
C16_Witness ==
    /\ med.pc = "inverse"
    /\ InverseUnambiguous
    /\ Len(med.edits) = 2
    /\ med.content # med.original
    /\ med.result.status = "ok"
    /\ disk.data = med.original

\* C17: every run ends: a turn that has begun is eventually over, by the
\* final response or by the error of the exceeded recursion limit, and a
\* nested run that has begun eventually returns to its parent.
C17_Terminates ==
    /\ (stack # <<>>) ~> (stack = <<>> /\ outcome \in {"response", "error"})
    /\ (Len(stack) = 2) ~> (Len(stack) < 2)

\* A nested run was stopped at its limit and reported it, and the turn
\* itself was stopped at its limit.
C17_Witness ==
    /\ stack = <<>>
    /\ outcome = "error"
    /\ \E k \in 1..Len(messages) :
         messages[k].content = "Error: Sub-agent exceeded maximum iterations (50 steps)"

\* C18: one ceiling governs every run: the recursion limit of a nested
\* run is the recursion limit of the turn it was delegated from.
C18_SharedCeiling ==
    \A d \in 1..Len(stack) : stack[d].limit = stack[1].limit

\* The tool node with an approval manager hands its next call to
\* request_approval, and the user does not interrupt.
RequestStep ==
    /\ stack # <<>>
    /\ Top.approval
    /\ Top.pc = "tools"
    /\ Top.todo # {}
    /\ stack' # stack
    /\ outcome' # "cancelled"

\* The call request_approval is asked about.
Requested == Calls(Top)[CHOOSE j \in Top.todo : \A k \in Top.todo : j <= k]

\* request_approval has returned true without a prompt, a fault or a record.
ReturnsTrue ==
    /\ Len(stack') = Len(stack)
    /\ stack'[Len(stack')].pc = "invoke"
    /\ stack'[Len(stack')].approved
    /\ approval_history' = approval_history

\* request_approval has come to its prompt.
Prompts ==
    /\ Len(stack') = Len(stack)
    /\ stack'[Len(stack')].pc = "prompt"

\* C19: while auto-approve is on, request_approval returns true for every
\* tool name and arguments, with no preview and no prompt; while it is off,
\* as after set_auto_approve(false), a destructive request prompts.
C19_AutoApprove ==
    [][RequestStep =>
         IF auto_approve THEN ReturnsTrue
         ELSE Requested.name \in GatedTools => Prompts]_vars

\* The same, the destructive request having arguments of the right types.
C19_AutoApproveWellTyped ==
    [][RequestStep =>
         IF auto_approve THEN ReturnsTrue
         ELSE Requested.name \in GatedTools /\ Requested.args.shape # "wrong_type"
                => Prompts]_vars

\* request_approval returns its decision about a destructive call: at once
\* under auto-approve, or on the user's answer to the prompt.
DecisionStep ==
    /\ stack # <<>>
    /\ Top.approval
    /\ Top.pc \in {"tools", "prompt"}
    /\ Len(stack') = Len(stack)
    /\ stack'[Len(stack')].pc = "invoke"
    /\ Calls(Top)[stack'[Len(stack')].cur].name \in GatedTools

\* The entry of the decision just returned.
DecisionEntry ==
    LET f == stack'[Len(stack')]
    IN  [tool |-> Calls(Top)[f.cur].name, file |-> "f",
         approved |-> f.approved, call |-> Calls(Top)[f.cur].id]

\* The statistics count every entry once, as approved or as rejected.
StatsAddUp ==
    /\ get_approval_stats.approved + get_approval_stats.rejected
         = get_approval_stats.total
    /\ get_approval_stats.total = Len(approval_history)

\* C20 (as stated): every decision request_approval returns for a
\* destructive call appends exactly one entry to the approval history, and
\* nothing else changes the history.
C20_EveryDecisionRecorded ==
    [][IF DecisionStep
       THEN approval_history' = Append(approval_history, DecisionEntry)
       ELSE approval_history' = approval_history]_vars

\* C20 (amended): every decision the user gives at the prompt for a
\* destructive call appends exactly one entry, in decision order; a decision
\* returned under auto-approve appends none; no step removes or changes an
\* entry; and the statistics add up to the number of entries.
C20_PromptedDecisionsRecorded ==
    /\ [](StatsAddUp)
    /\ [][/\ IsPrefix(approval_history, approval_history')
          /\ IF DecisionStep /\ Top.pc = "prompt"
             THEN approval_history' = Append(approval_history, DecisionEntry)
             ELSE approval_history' = approval_history]_vars

\* The user has approved one destructive call and rejected the next.
C20_Witness ==
    /\ Len(approval_history) = 2
    /\ approval_history[1].approved
    /\ ~approval_history[2].approved
    /\ approval_history[1].call < approval_history[2].call
    /\ get_approval_stats = [approved |-> 1, rejected |-> 1, total |-> 2]

\* The user can give either answer at the prompt.
EitherAnswer ==
    stack # <<>> /\ Top.pc = "prompt" =>
      \A b \in BOOLEAN :
        ENABLED (/\ PromptResponse
                 /\ stack'[Len(stack')].pc = "invoke"
                 /\ stack'[Len(stack')].approved = b)

\* C21: what request_approval does is fixed by the auto-approve flag, the
\* tool name and the answer to the current prompt, whatever the approval
\* history holds: without a prompt it returns true exactly when
\* auto-approve is on or the tool is not destructive, otherwise it prompts
\* (a destructive call approved before included), and at the prompt either
\* answer can be given and is the decision.
C21_NoMemoization ==
    /\ [](EitherAnswer)
    /\ [][/\ RequestStep /\ (auto_approve \/ Requested.name \notin GatedTools)
               => ReturnsTrue
          /\ RequestStep /\ ~auto_approve /\ Requested.name \in GatedTools
               /\ Requested.args.shape # "wrong_type"
               => Prompts
          /\ DecisionStep /\ Top.pc = "prompt"
               => approval_history'[Len(approval_history')].approved
                    = stack'[Len(stack')].approved]_vars

\* The user is prompted for a destructive call the same as one they have
\* approved before.
C21_Witness ==
    /\ stack # <<>>
    /\ Top.pc = "prompt"
    /\ \E k \in 1..Len(approval_history), j \in 1..Len(Calls(Top)) :
         /\ approval_history[k].approved
         /\ approval_history[k].call = Calls(Top)[j].id
         /\ j < Top.cur
         /\ Calls(Top)[j].name = Calls(Top)[Top.cur].name
         /\ Calls(Top)[j].args = Calls(Top)[Top.cur].args

\* The ids of the tool calls made and answered in a conversation.
CallIds(msgs) ==
    UNION {{msgs[k].tool_calls[j].id : j \in 1..Len(msgs[k].tool_calls)} :
             k \in 1..Len(msgs)}
      \cup {msgs[k].tool_call_id : k \in {j \in 1..Len(msgs) : msgs[j].role = "tool"}}

\* The ids of the tool calls executed inside nested runs.
NestedIds == {executed[k].id : k \in {j \in 1..Len(executed) : executed[j].depth > 1}}

\* A nested run holds the prompt as its one user message, first, and no
\* tool call of its parent's conversation.
NestedConversation ==
    \A d \in 2..Len(stack) :
      /\ stack[d].msgs[1] = HumanMessage("p")
      /\ \A k \in 2..Len(stack[d].msgs) : stack[d].msgs[k].role \in {"ai", "tool"}
      /\ CallIds(stack[d].msgs) \cap CallIds(stack[d - 1].msgs) = {}

\* No tool call of a nested run is in the parent's or the session's history.
ParentConversation ==
    /\ CallIds(messages) \cap NestedIds = {}
    /\ stack # <<>> => CallIds(stack[1].msgs) \cap NestedIds = {}

\* C22: a delegation starts its nested run on a new conversation of exactly
\* one user message, the prompt, the same whatever the parent's history; the
\* nested run sees no message of the parent; and its return leaves the
\* parent's conversation as it was but for the one tool result of the
\* delegation call.
C22_ConversationIsolation ==
    /\ [](NestedConversation /\ ParentConversation)
    /\ [][/\ Len(stack') = Len(stack) + 1 /\ stack # <<>> =>
               LET n == stack'[Len(stack')]
               IN  /\ n.msgs = <<HumanMessage("p")>>
                   /\ n.steps = 0 /\ n.model_calls = 0 /\ n.dispatches = 0
                   /\ n.pc = "agent" /\ n.todo = {} /\ n.acc = <<>>
                   /\ ~n.approval /\ n.limit = SubRecursionLimit
                   /\ n.tools = SubagentTools(n.kind)
          /\ Len(stack') = Len(stack) - 1 /\ stack' # <<>> =>
               LET p == stack[Len(stack')]
                   q == stack'[Len(stack')]
               IN  /\ q.msgs = p.msgs
                   /\ messages' = messages
                   /\ \A i \in 1..Len(p.acc) : i # p.cur => q.acc[i] = p.acc[i]
                   /\ q.acc[p.cur].role = "tool"
                   /\ q.acc[p.cur].tool_call_id = Calls(p)[p.cur].id]_vars

\* A nested run has executed a tool of its own and its report has entered
\* the session's history as the result of the delegation.
C22_Witness ==
    /\ NestedIds # {}
    /\ \E k \in 1..Len(messages) :
         messages[k].role = "tool" /\ messages[k].name = "task"

\* A nested run started by task has reached END and returns to its parent.
TaskReturns ==
    /\ Len(stack) > 1
    /\ Top.via = "task"
    /\ Top.pc = "end"
    /\ Len(stack') = Len(stack) - 1

\* C23: when the nested run of a delegation ends normally, the report
\* returned is the text of the nested conversation's final assistant
\* message, never the content of a user message or of a tool result.
C23_ReportIsFinalAssistantText ==
    [][TaskReturns =>
         LET p == stack[Len(stack')]
             final == Top.msgs[Len(Top.msgs)]
         IN  /\ final.role = "ai"
             /\ stack'[Len(stack')].acc[p.cur].content = final.content]_vars

\* What task returns for a nested run stopped at its recursion limit.
CeilingDiagnostic == "Error: Sub-agent exceeded maximum iterations (50 steps)"

\* The nested run of a task delegation is stopped at its recursion limit.
NestedCeilingStep ==
    /\ Len(stack) > 1
    /\ Top.via = "task"
    /\ Top.steps >= Top.limit
    /\ stack' # stack

\* The parent's dispatch holds the diagnostic as the result of a call.
HoldsDiagnostic ==
    /\ Len(stack) = 1
    /\ Top.pc = "tools"
    /\ \E i \in 1..Len(Top.acc) : Top.acc[i].content = CeilingDiagnostic

\* The model has been called on a conversation ending in the diagnostic.
ModelSawDiagnostic ==
    \E k \in 1..Len(messages) - 1 :
      /\ messages[k].role = "tool"
      /\ messages[k].content = CeilingDiagnostic
      /\ messages[k + 1].role = "ai"

\* C24: a nested run that exceeds its recursion limit makes task return
\* the diagnostic as the tool result of the delegation call; nothing is
\* raised to the parent, whose turn goes on running and comes to its next
\* model call.
C24_CeilingIsToolResult ==
    /\ [][NestedCeilingStep =>
            LET p == stack[Len(stack) - 1]
                q == stack'[Len(stack')]
            IN  /\ Len(stack') = Len(stack) - 1
                /\ q.acc[p.cur] = ToolMessage(CeilingDiagnostic, "task",
                                              Calls(p)[p.cur].id)
                /\ q.pc = "tools"
                /\ q.msgs = p.msgs
                /\ outcome' = outcome /\ outcome = "running"]_vars
    /\ HoldsDiagnostic ~> ModelSawDiagnostic

\* The parent's turn is running after its model was called on the
\* diagnostic of a nested run.
C24_Witness ==
    /\ stack # <<>>
    /\ outcome = "running"
    /\ ModelSawDiagnostic

\* An exception is raised inside a nested run (not the user's interrupt).
NestedFaultStep ==
    /\ Len(stack) > 1
    /\ Top.pc # "end"
    /\ Len(stack') < Len(stack)
    /\ outcome' # "cancelled"

\* What task and init return for an exception of the nested run.
DelegationFailure(via) ==
    IF via = "task" THEN "Error executing sub-agent"
    ELSE "Error during project initialization"

UnknownClassStep(i) ==
    /\ stack # <<>>
    /\ Len(stack') = Len(stack)
    /\ Top.pc \in {"tools", "invoke"}
    /\ i \in Top.todo
    /\ i \notin stack'[Len(stack')].todo
    /\ Calls(Top)[i].name = "task"
    /\ "task" \in Top.tools
    /\ Calls(Top)[i].args.shape = "valid"
    /\ Calls(Top)[i].args.subagent_type \notin ValidTypes

CopertMdTools == {"write_copert_md", "read_copert_md"}

MutatingTools ==
    {"write_file", "edit_file", "multiedit", "bash", "write_copert_md"}
      \cup DelegationTools

\* C28: the general-purpose class has no write, edit, multi-edit, shell or
\* delegation tool, and no step taken while a general-purpose nested run is
\* on the stack changes the files, whatever tool calls its model makes.
C28_ReadOnlySubagent ==
    /\ [](\A d \in 2..Len(stack) :
            stack[d].kind = "general-purpose" =>
              stack[d].tools \cap MutatingTools = {})
    /\ [][(\E d \in 2..Len(stack) : stack[d].kind = "general-purpose") =>
            /\ disk' = disk
            /\ copert_md' = copert_md]_vars

\* The model of a general-purpose run has called write_file and been told
\* that it is no tool of the run.
C28_Witness ==
    /\ Len(stack) = 2
    /\ Top.kind = "general-purpose"
    /\ \E i \in 1..Len(Top.acc) :
         /\ Calls(Top)[i].name = "write_file"
         /\ Calls(Top)[i].args.shape = "valid"
         /\ Top.acc[i].content = InvalidTool("write_file")

\* C29: whenever a graph is about to call the model, the messages it
\* submits begin with a system message, the system prompt of the graph's
\* class, and hold no other system message; the conversation itself holds
\* none, so the agent node puts it in front at every call.
C29_SystemMessageFirst ==
    \A d \in 1..Len(stack) :
      stack[d].pc = "agent" =>
        LET s == Submitted(stack[d])
        IN  /\ s[1] = SystemMessage(SystemPrompt(stack[d].kind))
            /\ \A k \in 2..Len(s) : s[k].role # "system"
            /\ SubSeq(s, 2, Len(s)) = stack[d].msgs
            /\ \A k \in 1..Len(stack[d].msgs) : stack[d].msgs[k].role # "system"

\* A nested graph is about to call its model a second time, after the
\* result of a tool.
C29_Witness ==
    /\ Len(stack) = 2
    /\ Top.pc = "agent"
    /\ Top.model_calls = 1
    /\ Top.msgs[Len(Top.msgs)].role = "tool"

\* C30: no two tool executions of one assistant message overlap: at most
\* one call of a dispatch is being executed at any time.
C30_Serialized ==
    \A d \in 1..Len(stack) : Cardinality(stack[d].pool) <= 1

\* C31: an interrupt that arrives while the approval prompt waits for the
\* user's answer rejects that one call: the turn is not ended, and the
\* dispatch goes on with a rejection result for the call, which is not
\* executed.
C31_InterruptAtPromptRejects ==
    [][stack # <<>> /\ Top.pc = "prompt" /\ stack' # stack =>
         /\ Len(stack') = Len(stack)
         /\ outcome' = outcome
         /\ executed' = executed
         /\ \/ stack'[Len(stack')].pc = "invoke"
            \/ /\ stack'[Len(stack')].pc = "tools"
               /\ stack'[Len(stack')].acc[Top.cur].content
                    = "Operation rejected by user"]_vars

\* The turn waits for the model or for a nested run.
ModelOrDelegationWait ==
    /\ stack # <<>>
    /\ Top.pc = "agent" \/ Len(stack) > 1

\* C32: an interrupt during a model or delegation wait ends the turn and
\* nothing else: the session's history is what it was, in the same order;
\* while no turn runs the model is not called and no tool is executed; and
\* the session takes the next user message, which follows the history the
\* interrupted turn left.
C32_InterruptAbortsTurnOnly ==
    /\ [][/\ ModelOrDelegationWait /\ outcome' = "cancelled" =>
               /\ stack' = <<>>
               /\ messages' = messages
               /\ executed' = executed
               /\ llm' = llm
               /\ disk' = disk
          /\ stack = <<>> =>
               /\ executed' = executed
               /\ llm' = llm
               /\ disk' = disk
               /\ stack' # <<>> =>
                    /\ messages' = Append(messages, HumanMessage("u"))
                    /\ stack'[1].msgs = messages'
                    /\ outcome' = "running"]_vars
    /\ [](stack = <<>> /\ outcome = "cancelled" /\ turns + llm.calls < MaxInputs
            => ENABLED UserMessage)

\* A turn was interrupted while it waited for a nested run, and the next
\* turn runs on the history it left.
C32_Witness ==
    /\ turns = 2
    /\ outcome = "running"
    /\ stack # <<>>
    /\ \E k \in 1..Len(executed) :
         /\ executed[k].name \in DelegationTools
         /\ executed[k].depth = 1
         /\ \A j \in 1..Len(messages) :
              ~(messages[j].role = "tool" /\ messages[j].tool_call_id = executed[k].id)
         /\ \E j \in 1..Len(stack[1].msgs) :
              /\ stack[1].msgs[j].role = "ai"
              /\ \E c \in 1..Len(stack[1].msgs[j].tool_calls) :
                   stack[1].msgs[j].tool_calls[c].id = executed[k].id

\* C33: the user is prompted only for a call whose tool name is in the
\* graph's registry and whose arguments fit the tool's schema: resolution
\* and validation come before the approval prompt.
C33_PromptOnlyForValidCalls ==
    \A d \in 1..Len(stack) :
      stack[d].pc = "prompt" =>
        /\ Resolves(stack[d], Calls(stack[d])[stack[d].cur].name)
        /\ Calls(stack[d])[stack[d].cur].args.shape = "valid"

\* The calls of the dispatch still to be processed are the last ones of
\* the message, and the call at the gate or in execution is the first of
\* them: the calls are taken one at a time in the order of the message.
InMessageOrder(f) ==
    /\ \A i \in f.todo : \A j \in 1..Len(Calls(f)) : j > i => j \in f.todo
    /\ f.pc \in {"prompt", "invoke"} =>
         /\ f.cur \in f.todo
         /\ \A i \in f.todo : f.cur <= i
    /\ \A i \in 1..Len(f.acc) :
         IF i \in f.todo THEN f.acc[i] = NoMsg
         ELSE /\ f.acc[i].role = "tool"
              /\ f.acc[i].tool_call_id = Calls(f)[i].id

\* In a conversation, an assistant message with tool calls is the last
\* message or is followed by the results of all its calls, in their order.
ResultsTogether(msgs) ==
    \A k \in 1..Len(msgs) :
      msgs[k].role = "ai" /\ msgs[k].tool_calls # <<>> /\ k < Len(msgs)
      /\ msgs[k + 1].role = "tool" =>
        LET n == Len(msgs[k].tool_calls)
        IN  /\ k + n <= Len(msgs)
            /\ \A j \in 1..n :
                 /\ msgs[k + j].role = "tool"
                 /\ msgs[k + j].tool_call_id = msgs[k].tool_calls[j].id
            /\ k + n < Len(msgs) => msgs[k + n + 1].role # "tool"

HoldsRejection ==
    /\ stack # <<>>
    /\ Top.pc \in {"tools", "prompt", "invoke"}
    /\ \E i \in 1..Len(Top.acc) : Top.acc[i].content = "Operation rejected by user"

\* The rejected call at the head of the dispatch is answered.
RejectionStep ==
    /\ stack # <<>>
    /\ Top.pc = "invoke"
    /\ ~Top.approved
    /\ stack' # stack

\* What the rejection of a call does: its result is the rejection message
\* with the call's id, the tool is not invoked, the later calls stay to be
\* processed.
RejectionIsLocal ==
    RejectionStep =>
      /\ Len(stack') = Len(stack)
      /\ stack'[Len(stack')].acc[Top.cur]
           = ToolMessage("Operation rejected by user", Calls(Top)[Top.cur].name,
                         Calls(Top)[Top.cur].id)
      /\ stack'[Len(stack')].todo = Top.todo \ {Top.cur}
      /\ stack'[Len(stack')].pc = "tools"
      /\ executed' = executed
      /\ disk' = disk
      /\ outcome' = outcome

\* C35: a rejected call gets the rejection message with its id as result
\* and is not invoked; every later call of the message is still processed
\* and the turn goes on to fold the results for the next model call.
C35_RejectionIsLocal ==
    [][/\ RejectionIsLocal
       /\ HoldsRejection => stack' # <<>> /\ outcome' = outcome]_vars

\* The same, unless the preview of a later call faults.
C35_RejectionIsLocalButFaults ==
    [][/\ RejectionIsLocal
       /\ HoldsRejection /\ stack' = <<>> =>
            /\ outcome' = "error"
            /\ Top.pc = "tools"
            /\ \E i \in Top.todo :
                 /\ Calls(Top)[i].name \in GatedTools
                 /\ Calls(Top)[i].args.shape = "wrong_type"]_vars

\* The responses that are a yes and those that are a no.
YesResponses == {<<"y">>, <<"Y", "E", "S">>, <<" ", "y", "e", "s", " ">>}
NoResponses == {<<"n">>, <<"N", "o">>, <<"n", "o", " ">>}

\* C36: at the prompt for a destructive call, a response that is y or yes
\* after trimming and lower-casing makes the gate return true, one that is
\* n or no makes it return false, and any other response leaves the prompt
\* waiting with nothing recorded; the gate returns no decision but on such
\* a yes or no.
Returns(raw, decision) ==
    ENABLED (/\ PromptAnswer(raw)
             /\ stack'[Len(stack)].pc = "invoke"
             /\ stack'[Len(stack)].approved = decision
             /\ Len(approval_history') = Len(approval_history) + 1)
AsksAgain(raw) ==
    /\ ENABLED PromptAnswer(raw)
    /\ ~ENABLED (/\ PromptAnswer(raw)
                 /\ <<stack, approval_history>>' # <<stack, approval_history>>)
C36_PromptProtocol ==
    /\ [](\A d \in 1..Len(stack) :
            stack[d].pc = "prompt" =>
              /\ d = Len(stack)
              /\ ~auto_approve
              /\ Calls(stack[d])[stack[d].cur].name \in GatedTools
              /\ \A raw \in Responses :
                   IF raw \in YesResponses THEN Returns(raw, TRUE)
                   ELSE IF raw \in NoResponses THEN Returns(raw, FALSE)
                   ELSE AsksAgain(raw))
    /\ [][DecisionStep /\ Top.pc = "prompt" =>
            \E raw \in YesResponses \cup NoResponses :
              /\ PromptAnswer(raw)
              /\ stack'[Len(stack')].approved = (raw \in YesResponses)]_vars

\* The user has answered one prompt with a yes and the next with a no.
C36_Witness ==
    /\ stack # <<>>
    /\ Top.pc = "invoke"
    /\ ~Top.approved
    /\ Top.cur = 2
    /\ Len(approval_history) = 2
    /\ approval_history[1].approved
    /\ ~approval_history[2].approved

\* The gate asks for the three file-writing tools and for no other.
PromptsExactlyForGated ==
    RequestStep /\ ~auto_approve =>
      /\ Prompts => Requested.name \in GatedTools
      /\ Requested.name \in GatedTools /\ Requested.args.shape = "valid" => Prompts
      /\ Requested.name \notin GatedTools => ReturnsTrue

\* A tool call changes the file.
MutationStep ==
    /\ stack # <<>>
    /\ Top.pc = "invoke"
    /\ disk' # disk

\* C37: the gate prompts for exactly write_file, edit_file and multiedit;
\* for every other tool name request_approval returns true with no prompt
\* and no record; and every tool of the registry that can change what is
\* stored is one of the three.
C37_GatedSet ==
    [][/\ PromptsExactlyForGated
       /\ MutationStep => Calls(Top)[Top.cur].name \in GatedTools]_vars

\* The same, but for bash, which changes what is stored and is not gated.
C37_GatedSetButBash ==
    /\ "bash" \in ALL_TOOLS \ GatedTools
    /\ [][/\ PromptsExactlyForGated
          /\ MutationStep =>
               Calls(Top)[Top.cur].name \in GatedTools \cup {"bash"}]_vars

\* The write of the edited content has failed.
FailedWriteStep ==
    /\ med.pc = "write"
    /\ med'.pc # "done"

\* C38: when the write of the fully edited content fails, multiedit goes on
\* to write the original content back and then returns the write error; a
\* restore that succeeds leaves the file with the content it had before the
\* call; a run whose write has failed never reports success.
C38_PersistenceFailure ==
    /\ [](med.pc \in {"write", "restore"} =>
            /\ med.pre.kind = "file"
            /\ med.original = med.pre.data)
    /\ [](med.pc = "restore" =>
            /\ ENABLED MultieditRestore
            /\ ENABLED (MultieditRestore /\ disk' = med.pre))
    /\ [](med.pc = "done" /\ med.writes >= 2 =>
            /\ med.result = Err("write_error", 0)
            /\ \/ disk = med.pre
               \/ disk.data \in Prefixes(med.content) \cup Prefixes(med.original))
    /\ [][/\ FailedWriteStep =>
               /\ med'.pc = "restore"
               /\ med'.result.status # "ok"
          /\ med.pc = "restore" /\ med' # med =>
               /\ med'.pc = "done"
               /\ med'.result = Err("write_error", 0)
               /\ disk' \in {w.disk : w \in WriteOutcomes(disk, med.pre.data)}
          /\ med.pc = "done" /\ med.result.status = "ok" /\ med'.pc = "done" =>
               med'.result.status = "ok"]_vars

\* A failed write has left part of the edited content in the file, and the
\* restore has put the original content back.
C38_Witness ==
    /\ med.pc = "done"
    /\ med.writes = 2
    /\ med.result = Err("write_error", 0)
    /\ med.content # med.original
    /\ disk = med.pre

\* What the other of the two tools makes of the same file and edit.
OtherTool ==
    IF med.pc = "edit_file"
    THEN ToolResult(med.pre, MultieditTool(med.pre, med.edits))
    ELSE IF EditFile(med.pre, med.edits[1]).content = "Successfully replaced"
         THEN Ok(EditFile(med.pre, med.edits[1]).disk.data)
         ELSE Err("failed", 0)
OtherToolDisk ==
    IF med.pc = "edit_file" THEN MultieditTool(med.pre, med.edits).disk
    ELSE EditFile(med.pre, med.edits[1]).disk

\* C39: for every text file and every edit (match-text, replacement-text,
\* replace_all), the empty match-text, the empty file and a replacement
\* equal to the match-text included, multiedit with the one edit and
\* edit_file with it both succeed or both fail, and leave the same content
\* in the file.
C39_SingleEditEquivalence ==
    med.pc \in {"edit_file", "multiedit"} =>
      /\ med.pre.kind = "file"
      /\ med.result.status = OtherTool.status
      /\ disk = OtherToolDisk
      /\ med.result.status = "error" => disk = med.pre

\* edit_file has put the replacement-text into an empty file by the empty
\* match-text.
C39_Witness ==
    /\ med.pc = "edit_file"
    /\ med.pre.data = <<>>
    /\ med.edits[1].old_string = <<>>
    /\ med.result.status = "ok"
    /\ disk.data = <<"a", "b">>

\* multiedit has replaced every occurrence of a repeated match-text.
C39_WitnessAll ==
    /\ med.pc = "multiedit"
    /\ Count(med.pre.data, med.edits[1].old_string) > 1
    /\ med.result.status = "ok"

\* A user message starts a turn.
SubmitStep ==
    /\ stack = <<>>
    /\ stack' # <<>>

\* C40: the session's list is the conversation of the running graph, message
\* for message, so that after the turns made it holds the user messages and
\* every assistant and tool message the graph has produced, in order, none
\* twice and none left out; the history a turn submits is the session's
\* list as the turn before has left it, followed by the new user message.
C40_SessionMirrorsGraph ==
    /\ [](stack # <<>> => messages = stack[1].msgs)
    /\ [][/\ SubmitStep =>
               /\ messages' = Append(messages, HumanMessage("u"))
               /\ stack'[1].msgs = messages'
               /\ Len(stack') = 1
          /\ stack # <<>> /\ stack' # <<>> =>
               /\ Len(messages') >= Len(messages)
               /\ SubSeq(messages', 1, Len(messages)) = messages
               /\ SubSeq(stack'[1].msgs, Len(messages) + 1, Len(messages'))
                    = SubSeq(messages', Len(messages) + 1, Len(messages'))
          /\ stack # <<>> /\ stack' = <<>> => messages' = messages]_vars

\* A second turn has been completed after a first one, and the session
\* holds both user messages and the answers.
C40_Witness ==
    /\ stack = <<>>
    /\ outcome = "response"
    /\ turns = 2
    /\ Len(messages) >= 4
    /\ messages[1].role = "human"
    /\ messages[2].role = "ai"
    /\ messages[3].role = "human"
    /\ messages[Len(messages)].role = "ai"

=============================================================================
